---------------------------- MODULE Spec2Model ----------------------------
(***************************************************************************)
(* A model of av-metrics' video metrics: PSNR-HVS (video/psnr_hvs.rs) and  *)
(* SSIM / MS-SSIM (video/ssim.rs).                                         *)
(*                                                                         *)
(* Numbers.  usize/i64/i32 values are TLA+ integers.  An f64 is modelled   *)
(* as an extended rational <<n, d>> (d > 0 reduced; <<1,0>> = +inf,        *)
(* <<-1,0>> = -inf, <<0,0>> = NaN) wherever the code only adds, multiplies *)
(* and divides; rounding of f64 operations is not modelled.  A logarithm   *)
(* is held exactly, by its argument: [log10 |-> x] is log10(x), and the    *)
(* operations on logarithms are operations on their arguments.             *)
(***************************************************************************)
EXTENDS Integers, Sequences, FiniteSets, TLC

VARIABLES
    \* ---- VideoMetric::process_frame (one call) ----
    metric,       \* which impl of VideoMetric: "PsnrHvs", "Ssim", "MsSsim"
    size_of_T,    \* size_of::<T>() of the pixel type, 1 (u8) or 2 (u16)
    bit_depth,    \* the bit_depth argument
    frame1,       \* the two frames: [planes |-> <<plane, plane, plane>>]
    frame2,
    pc,           \* position in the operation under way
    task,         \* per channel: "none", "spawned" or "done" (rayon::scope)
    y, u, v,      \* the locals `let mut y/u/v`
    ret,          \* what process_frame returned
    \* ---- build_gaussian_kernel (one call) ----
    sigma,        \* the sigma argument, in quarters (sigma = 3 is 0.75)
    max_len,      \* the max_len argument
    kernel_weight,\* the kernel_weight argument
    kernel,       \* the call's outcome: [abort, kernel]
    \* ---- the two planes given to a plane function ----
    plane1,       \* the samples, row by row
    plane2,
    width, height,
    \* ---- calculate_plane_ssim_internal (one call) ----
    sample_max,
    vert_kernel, horiz_kernel,
    row_y,        \* the loop variable y of `for y in 0..(height + vert_offset)`
    lines,        \* the circular buffer of rows of SsimMoments
    ssim, ssimw, cs,   \* the accumulators
    ssim_ret,     \* the returned pair (ssim / ssimw, cs / ssimw)
    windows,      \* the windows of the vertical pass, when the moments are
                  \*   kept as the taps they sum
    \* ---- msssim_downscale (one call) ----
    input,        \* the samples, row by row
    input_width, input_height,
    output,       \* the call's outcome: [abort, output, reads]
    \* ---- calculate_plane_msssim (one call) ----
    ms_bit_depth, \* the bit_depth argument
    scale,        \* the scale under way: 0, then the loop variable i
    max_moment,   \* the largest SsimMoments field accumulated so far
    \* ---- od_dct_rshift (one call) ----
    rshift_a,     \* the argument a: i32
    rshift_b,     \* the argument b: u32
    rshift_checks,\* the build: TRUE panics on i32 overflow, FALSE wraps
    rshift_ret,   \* the returned i32
    \* ---- calculate_plane_psnr_hvs (one call) ----
    stride,       \* plane1.cfg.stride
    plane_idx,    \* 0, 1, 2: which CSF table
    hvs_bit_depth,\* the bit_depth argument
    overflow_checks, \* the build: TRUE panics on usize overflow, FALSE wraps
    blk_x, blk_y, \* the loop variables x and y (block origin)
    result,       \* the accumulator `result`
    pixels,       \* the counter `pixels`
    visited,      \* the block origins <<x, y>> whose body has run, in order
    hvs_ret,      \* the returned f64
    \* ---- a metric value and the per-frame results it is given ----
    processor,    \* which metric: "PsnrHvs", "Ssim", "MsSsim"
    cweight,      \* its field cweight: Option<f64>
    metrics,      \* the list of per-frame PlanarMetrics
    \* ---- calculate_frame_* / aggregate_frame_results (one call) ----
    chroma_sampling, \* the chroma_sampling argument
    frame_result, \* what the inner process_frame call returned
    score_ret,    \* what the call returned
    \* ---- calculate_video_* and VideoMetric::process_video (one call) ----
    decoder1,     \* [details, stream]: the video's properties and what
    decoder2,     \*   read_video_frame yields, item by item
    frame_limit,  \* Option<usize>
    pos1, pos2,   \* how many items each decoder has given
    fetched1,     \* the items of the last fetch
    fetched2,
    processed,    \* the stream positions <<i1, i2>> of the pairs given to process_frame
    progress,     \* what the progress callback was called with
    aggregate_calls, \* how many times aggregate_frame_results was called
    video_ret     \* what the call returned

frameVars == <<metric, size_of_T, bit_depth, frame1, frame2, task, y, u, v, ret>>
kernelVars == <<sigma, max_len, kernel_weight, kernel>>

planeArgs == <<plane1, plane2, width, height>>
ssimArgs == <<planeArgs, sample_max, vert_kernel, horiz_kernel>>
ssimOwn == <<sample_max, vert_kernel, horiz_kernel, row_y, lines, ssim, ssimw, cs, ssim_ret>>
hvsArgs == <<planeArgs, stride, plane_idx, hvs_bit_depth, overflow_checks>>
hvsOwn == <<stride, plane_idx, hvs_bit_depth, overflow_checks, blk_x, blk_y, result, pixels,
           visited, hvs_ret>>

procVars == <<processor, cweight, metrics>>
scoreOwn == <<chroma_sampling, frame_result, score_ret>>
windowOwn == <<windows>>
downOwn == <<input, input_width, input_height, output>>
msOwn == <<ms_bit_depth, scale, max_moment>>
rshiftOwn == <<rshift_a, rshift_b, rshift_checks, rshift_ret>>
videoArgs == <<decoder1, decoder2, frame_limit>>
videoOwn == <<videoArgs, pos1, pos2, fetched1, fetched2, processed, progress,
              aggregate_calls, video_ret>>

vars == <<pc, frameVars, kernelVars, planeArgs, ssimOwn, hvsOwn, procVars, scoreOwn, videoOwn, windowOwn, downOwn, msOwn, rshiftOwn>>

\* everything but one operation's own variables
notFrame == <<kernelVars, planeArgs, ssimOwn, hvsOwn, procVars, scoreOwn, videoOwn, windowOwn, downOwn, msOwn, rshiftOwn>>
notKernel == <<frameVars, planeArgs, ssimOwn, hvsOwn, procVars, scoreOwn, videoOwn, windowOwn, downOwn, msOwn, rshiftOwn>>
notSsim == <<frameVars, kernelVars, hvsOwn, procVars, scoreOwn, videoOwn, windowOwn, downOwn, msOwn, rshiftOwn>>
notHvs == <<frameVars, kernelVars, ssimOwn, procVars, scoreOwn, videoOwn, windowOwn, downOwn, msOwn, rshiftOwn>>
notScore == <<frameVars, kernelVars, planeArgs, ssimOwn, hvsOwn, videoOwn, windowOwn, downOwn, msOwn, rshiftOwn>>
notVideo == <<frameVars, kernelVars, planeArgs, ssimOwn, hvsOwn, scoreOwn, windowOwn, downOwn, msOwn, rshiftOwn>>
notWindow == <<frameVars, kernelVars, hvsOwn, procVars, scoreOwn, videoOwn, downOwn, msOwn, rshiftOwn>>
notDown == <<frameVars, kernelVars, planeArgs, ssimOwn, hvsOwn, procVars, scoreOwn, videoOwn,
             windowOwn, msOwn, rshiftOwn>>
notMs == <<frameVars, kernelVars, hvsOwn, procVars, scoreOwn, videoOwn, windowOwn, downOwn,
           rshiftOwn>>
notRshift == <<frameVars, kernelVars, planeArgs, ssimOwn, hvsOwn, procVars, scoreOwn, videoOwn,
               windowOwn, downOwn, msOwn>>

-----------------------------------------------------------------------------
(* Bounds of the model *)

MaxBitDepth == 10
MaxPlaneDim == 4
MaxSigma == 8        \* sigma up to 8/4 = 2.0
MaxLen == 5          \* max_len up to 5, as MS-SSIM passes
MaxSsimDim == 3      \* width and height of the planes given to the SSIM pass
MaxSsimDepth == 2    \* their bit depth
MaxHvsDim == 15      \* width and height of the planes given to PSNR-HVS
MaxHvsDepth == 3     \* their bit depth
ScoreDen == 4        \* per-channel accumulators are 0, 1/4, .., 1
MaxFrames == 3       \* per-frame results given to aggregate_frame_results

-----------------------------------------------------------------------------
(* f64 as extended rationals *)

Abs(a) == IF a < 0 THEN -a ELSE a
Sgn(a) == IF a < 0 THEN -1 ELSE IF a > 0 THEN 1 ELSE 0
Min(a, b) == IF a < b THEN a ELSE b
Max(a, b) == IF a > b THEN a ELSE b

RECURSIVE Gcd(_, _)
Gcd(a, b) == IF b = 0 THEN a ELSE Gcd(b, a % b)

NaN == <<0, 0>>
PosInf == <<1, 0>>
NegInf == <<-1, 0>>
R(n) == <<n, 1>>

RNorm(n, d) ==
    IF d = 0 THEN <<Sgn(n), 0>>
    ELSE LET g == Gcd(Abs(n), Abs(d))
             s == Sgn(d)
         IN  <<s * (n \div g), s * (d \div g)>>

IsNaN(a) == a = NaN
IsFinite(a) == a[2] # 0

RMul(a, b) == RNorm(a[1] * b[1], a[2] * b[2])

RAdd(a, b) ==
    IF a[2] = 0 /\ b[2] = 0
    THEN (IF a = b THEN a ELSE NaN)
    ELSE IF a[2] = 0 THEN a
    ELSE IF b[2] = 0 THEN b
    ELSE LET g == Gcd(a[2], b[2])
         IN  RNorm(a[1] * (b[2] \div g) + b[1] * (a[2] \div g), (a[2] \div g) * b[2])

RNeg(a) == <<-a[1], a[2]>>
RSub(a, b) == RAdd(a, RNeg(b))
RInv(a) == RNorm(a[2], a[1])
RDiv(a, b) == RMul(a, RInv(b))
RLess(a, b) == a # NaN /\ b # NaN /\ a # b /\
               (IF a[2] = 0 THEN a = NegInf
                ELSE IF b[2] = 0 THEN b = PosInf
                ELSE a[1] * b[2] < b[1] * a[2])


-----------------------------------------------------------------------------
(* Frames and planes as process_frame sees them.  A plane is its geometry  *)
(* (cfg) and its samples (data, here a name for the content).              *)

Metrics == {"PsnrHvs", "Ssim", "MsSsim"}
Channels == 0..2

Plane(w, h, d) == [cfg |-> <<w, h>>, data |-> d]

\* a frame with luma w x 2, chroma either full size or halved (4:2:0)
Frame(w, sub, c) ==
    [planes |-> <<Plane(w, 2, <<c, 0>>),
                  Plane(IF sub THEN w \div 2 ELSE w, IF sub THEN 1 ELSE 2, <<c, 1>>),
                  Plane(IF sub THEN w \div 2 ELSE w, IF sub THEN 1 ELSE 2, <<c, 2>>)>>]

Frames == {Frame(w, sub, c) : w \in {2, MaxPlaneDim}, sub \in BOOLEAN, c \in {"a", "b"}}

NoMetrics == [y |-> <<"none">>, u |-> <<"none">>, v |-> <<"none">>, avg |-> <<"none">>]
NoReturn == [tag |-> "none", reason |-> "", value |-> NoMetrics]
Err(r) == [tag |-> "Err", reason |-> r, value |-> NoMetrics]
Ok(m) == [tag |-> "Ok", reason |-> "", value |-> m]
PlanarMetrics(a, b, c, d) == [y |-> a, u |-> b, v |-> c, avg |-> d]

BitDepthReason == "Bit depths does not match pixel width"
ResolutionReason == "Video resolution does not match"

\* the test of process_frame's first `if`
BitDepthMismatch_Off(sz, bd) == (sz = 1 /\ bd >= 8) \/ (sz = 2 /\ bd <= 8)
BitDepthMismatch(sz, bd) == (sz = 1 /\ bd > 8) \/ (sz = 2 /\ bd <= 8)

\* FrameCompare::can_compare: every plane pair has the same geometry
can_compare(f1, f2) == \A k \in 1..3 : f1.planes[k].cfg = f2.planes[k].cfg

\* (1 << bit_depth) - 1
RECURSIVE Pow2(_)
Pow2(n) == IF n = 0 THEN 1 ELSE 2 * Pow2(n - 1)
SampleMax(bd) == Pow2(bd) - 1

\* what channel task k computes: the call it makes, by name and arguments
PlaneScore(m, k, f1, f2, bd) ==
    CASE m = "PsnrHvs" -> <<"calculate_plane_psnr_hvs", f1.planes[k + 1], f2.planes[k + 1], k, bd>>
      [] m = "Ssim"    -> <<"calculate_plane_ssim", f1.planes[k + 1], f2.planes[k + 1], SampleMax(bd)>>
      [] m = "MsSsim"  -> <<"calculate_plane_msssim", f1.planes[k + 1], f2.planes[k + 1], bd>>

Unset == <<"unset">>
ZeroF == <<"0.0">>

NoKernel == [abort |-> FALSE, kernel |-> <<>>]

\* the variables of the other operations, while they are not in use
FrameIdle ==
    /\ metric = "none" /\ size_of_T = 0 /\ bit_depth = 0
    /\ frame1 = <<>> /\ frame2 = <<>> /\ task = <<>>
    /\ y = Unset /\ u = Unset /\ v = Unset /\ ret = NoReturn
KernelIdle ==
    sigma = 0 /\ max_len = 0 /\ kernel_weight = 0 /\ kernel = NoKernel
PlanesIdle ==
    plane1 = <<>> /\ plane2 = <<>> /\ width = 0 /\ height = 0
SsimIdle ==
    /\ sample_max = 0
    /\ vert_kernel = <<>> /\ horiz_kernel = <<>>
    /\ row_y = 0 /\ lines = <<>>
    /\ ssim = R(0) /\ ssimw = R(0) /\ cs = R(0)
    /\ ssim_ret = <<>>
HvsIdle ==
    /\ stride = 0 /\ plane_idx = 0 /\ hvs_bit_depth = 0 /\ overflow_checks = FALSE
    /\ blk_x = 0 /\ blk_y = 0 /\ result = R(0) /\ pixels = 0
    /\ visited = <<>>
    /\ hvs_ret = <<>>
ProcessorIdle ==
    processor = "none" /\ cweight = <<"None">> /\ metrics = <<>>
ScoreIdle ==
    chroma_sampling = "none" /\ frame_result = NoReturn /\ score_ret = NoReturn
NoDecoder == [details |-> [chroma_sampling |-> "none"], stream |-> <<>>]
NoItem == [kind |-> "none", frame |-> <<>>]
VideoIdle ==
    /\ decoder1 = NoDecoder /\ decoder2 = NoDecoder /\ frame_limit = <<"None">>
    /\ pos1 = 0 /\ pos2 = 0 /\ fetched1 = NoItem /\ fetched2 = NoItem
    /\ processed = <<>> /\ progress = <<>> /\ aggregate_calls = 0
    /\ video_ret = NoReturn

NoOutput == [abort |-> FALSE, output |-> <<>>, reads |-> {}]
DownIdle ==
    input = <<>> /\ input_width = 0 /\ input_height = 0 /\ output = NoOutput

RshiftIdle ==
    rshift_a = 0 /\ rshift_b = 0 /\ rshift_checks = FALSE /\ rshift_ret = 0
MsIdle ==
    ms_bit_depth = 0 /\ scale = 0 /\ max_moment = <<>>

\* every operation but those named in S is idle
IdleExcept(S) ==
    /\ "frame" \in S \/ FrameIdle
    /\ "kernel" \in S \/ KernelIdle
    /\ "planes" \in S \/ PlanesIdle
    /\ "ssim" \in S \/ SsimIdle
    /\ "hvs" \in S \/ HvsIdle
    /\ "processor" \in S \/ ProcessorIdle
    /\ "score" \in S \/ ScoreIdle
    /\ "video" \in S \/ VideoIdle
    /\ "window" \in S \/ windows = <<>>
    /\ "downscale" \in S \/ DownIdle
    /\ "msssim" \in S \/ MsIdle
    /\ "rshift" \in S \/ RshiftIdle

-----------------------------------------------------------------------------
(* process_frame, step by step *)

InitFrame ==
    /\ metric \in Metrics
    /\ size_of_T \in {1, 2}
    /\ bit_depth \in 1..MaxBitDepth
    /\ frame1 \in Frames
    /\ frame2 \in Frames
    /\ pc = "entry"
    /\ task = [k \in Channels |-> "none"]
    /\ y = Unset /\ u = Unset /\ v = Unset
    /\ ret = NoReturn
    /\ IdleExcept({"frame"})

\* if (size_of::<T>() == 1 && bit_depth > 8) || ... { return Err(..) }
CheckBitDepth ==
    /\ pc = "entry"
    /\ IF BitDepthMismatch(size_of_T, bit_depth)
       THEN pc' = "returned" /\ ret' = Err(BitDepthReason)
       ELSE pc' = "can_compare" /\ ret' = ret
    /\ UNCHANGED <<metric, size_of_T, bit_depth, frame1, frame2, task, y, u, v, notFrame>>

CheckCanCompare_Ignore ==
    /\ pc = "can_compare"
    /\ pc' = "scope" /\ ret' = ret /\ y' = ZeroF /\ u' = ZeroF /\ v' = ZeroF
    /\ UNCHANGED <<metric, size_of_T, bit_depth, frame1, frame2, task, notFrame>>

\* frame1.can_compare(frame2)?;  let mut y = 0.0; let mut u = 0.0; let mut v = 0.0;
CheckCanCompare ==
    /\ pc = "can_compare"
    /\ IF can_compare(frame1, frame2)
       THEN pc' = "scope" /\ ret' = ret /\ y' = ZeroF /\ u' = ZeroF /\ v' = ZeroF
       ELSE pc' = "returned" /\ ret' = Err(ResolutionReason) /\ UNCHANGED <<y, u, v>>
    /\ UNCHANGED <<metric, size_of_T, bit_depth, frame1, frame2, task, notFrame>>

\* s.spawn(|_| ...): the scope's closure spawns the three tasks in order
Spawn(k) ==
    /\ pc = "scope"
    /\ task[k] = "none"
    /\ \A j \in Channels : j < k => task[j] # "none"
    /\ task' = [task EXCEPT ![k] = "spawned"]
    /\ UNCHANGED <<metric, size_of_T, bit_depth, frame1, frame2, pc, y, u, v, ret, notFrame>>

\* a spawned task runs on a worker: it computes its plane pair's score and
\* stores it in its own variable
RunTask(k) ==
    /\ pc = "scope"
    /\ task[k] = "spawned"
    /\ task' = [task EXCEPT ![k] = "done"]
    /\ LET s == PlaneScore(metric, k, frame1, frame2, bit_depth)
       IN  /\ y' = IF k = 0 THEN s ELSE y
           /\ u' = IF k = 1 THEN s ELSE u
           /\ v' = IF k = 2 THEN s ELSE v
    /\ UNCHANGED <<metric, size_of_T, bit_depth, frame1, frame2, pc, ret, notFrame>>

\* a scope that returns as soon as one task has finished
ScopeJoin_Early ==
    /\ pc = "scope"
    /\ \E k \in Channels : task[k] = "done"
    /\ pc' = "returned"
    /\ ret' = Ok(PlanarMetrics(y, u, v, ZeroF))
    /\ UNCHANGED <<metric, size_of_T, bit_depth, frame1, frame2, task, y, u, v, notFrame>>

\* rayon::scope returns once every spawned task has finished;
\* Ok(PlanarMetrics { y, u, v, avg: 0. })
ScopeJoin ==
    /\ pc = "scope"
    /\ \A k \in Channels : task[k] = "done"
    /\ pc' = "returned"
    /\ ret' = Ok(PlanarMetrics(y, u, v, ZeroF))
    /\ UNCHANGED <<metric, size_of_T, bit_depth, frame1, frame2, task, y, u, v, notFrame>>

NextFrame ==
    \/ CheckBitDepth
    \/ CheckCanCompare
    \/ \E k \in Channels : Spawn(k)
    \/ \E k \in Channels : RunTask(k)
    \/ ScopeJoin

SpecFrame == InitFrame /\ [][NextFrame]_vars

-----------------------------------------------------------------------------
(* C1: process_frame returns the bit-depth InputMismatch error exactly     *)
(* when (sample width 1 and bit_depth > 8) or (sample width 2 and          *)
(* bit_depth <= 8), for each of the three metrics.                         *)
C1_BitDepthErrorExactly ==
    pc = "returned" =>
        ((ret.tag = "Err" /\ ret.reason = BitDepthReason)
            <=> ((size_of_T = 1 /\ bit_depth > 8) \/ (size_of_T = 2 /\ bit_depth <= 8)))

C1_Witness ==
    /\ pc = "returned" /\ metric = "MsSsim"
    /\ size_of_T = 2 /\ bit_depth = 8
    /\ ret = Err(BitDepthReason)

(* C2: the bit-depth check and can_compare both pass before any channel    *)
(* task is spawned; when either fails no task is ever spawned, y/u/v are   *)
(* never written and the call returns the error without a PlanarMetrics.   *)
C2_ChecksBeforeTasks ==
    /\ (\E k \in Channels : task[k] # "none")
          => (~BitDepthMismatch(size_of_T, bit_depth) /\ can_compare(frame1, frame2))
    /\ (BitDepthMismatch(size_of_T, bit_depth) \/ ~can_compare(frame1, frame2))
          => /\ \A k \in Channels : task[k] = "none"
             /\ y = Unset /\ u = Unset /\ v = Unset
             /\ pc = "returned" => (ret.tag = "Err" /\ ret.value = NoMetrics)

C2_Witness ==
    /\ pc = "returned" /\ ret = Err(ResolutionReason)
    /\ ~can_compare(frame1, frame2)
    /\ \A k \in Channels : task[k] = "none"

\* the local that channel task k assigns
ChannelVar(k) == IF k = 0 THEN y ELSE IF k = 1 THEN u ELSE v

(* C11: process_frame runs exactly three channel tasks, in any order.  A    *)
(* task that has not finished has left its variable at 0.0 and no other     *)
(* task has written it; a finished task k has left in its variable the      *)
(* score of planes[k] of the two frames and of nothing else; the result is  *)
(* built only when all three have finished, and it is then the three plane  *)
(* scores, whatever the order in which the tasks ran.                       *)
C11_TasksIsolatedAndJoined ==
    /\ DOMAIN task = 0..2
    /\ \A k \in Channels :
          /\ (pc = "scope" /\ task[k] # "done") => ChannelVar(k) = ZeroF
          /\ task[k] = "done" =>
                /\ ChannelVar(k) = PlaneScore(metric, k, frame1, frame2, bit_depth)
                /\ ChannelVar(k)[2] = frame1.planes[k + 1]
                /\ ChannelVar(k)[3] = frame2.planes[k + 1]
    /\ (pc = "returned" /\ ret.tag = "Ok") =>
          /\ \A k \in Channels : task[k] = "done"
          /\ ret.value = PlanarMetrics(PlaneScore(metric, 0, frame1, frame2, bit_depth),
                                       PlaneScore(metric, 1, frame1, frame2, bit_depth),
                                       PlaneScore(metric, 2, frame1, frame2, bit_depth),
                                       ZeroF)

\* the V task has finished before the Y and U tasks have run
C11_Witness ==
    /\ pc = "scope"
    /\ task[0] = "spawned" /\ task[1] = "spawned" /\ task[2] = "done"
    /\ y = ZeroF /\ u = ZeroF /\ v # ZeroF

-----------------------------------------------------------------------------
(* build_gaussian_kernel (ssim.rs).  Its f64 intermediates are computed in *)
(* fixed point: logarithms and the square root to 1/10^4, the exponential  *)
(* to 1/10^6, with every product kept inside 32 bits.  sigma is given in   *)
(* quarters.  On the model's inputs the resulting kernels are those of the *)
(* f64 code, e.g. (1.5, 5, 1024) gives 8 37 112 218 274 218 112 37 8.      *)

SigmaDen == 4
FP == 10000
LN2 == 6931               \* ln 2, in 1/FP
EFP == 1000000
ELN2 == 693147            \* ln 2, in 1/EFP
LN_SQRT_HALF_PI == 2258   \* ln((0.5 * PI).sqrt()), in 1/FP
SQRT_HALF_PI == 12533     \* (0.5 * PI).sqrt(), in 1/FP
INV_SQRT_2PI == 39894     \* 1.0 / (2.0 * PI).sqrt(), in 1/10^5

RECURSIVE Log2Floor(_)
Log2Floor(n) == IF n < 2 THEN 0 ELSE 1 + Log2Floor(n \div 2)

\* ln(n) in 1/FP, n >= 1: n = 2^k * m, ln m = 2 atanh((m-1)/(m+1))
LnFix(n) ==
    LET k == Log2Floor(n)
        q == Pow2(k)
        z == ((n - q) * FP) \div (n + q)
        z2 == (z * z) \div FP
        t3 == (z * z2) \div FP
        t5 == (t3 * z2) \div FP
        t7 == (t5 * z2) \div FP
        t9 == (t7 * z2) \div FP
    IN  k * LN2 + 2 * (z + t3 \div 3 + t5 \div 5 + t7 \div 7 + t9 \div 9)

\* a * b / EFP for 0 <= a, b <= EFP
MulFix6(a, b) == ((a \div 1000) * b) \div 1000 + ((a % 1000) * b) \div EFP

RECURSIVE ExpSeries(_, _, _, _, _)
ExpSeries(term, r, i, sign, acc) ==
    IF i > 10 THEN acc
    ELSE LET t == MulFix6(term, r) \div i
         IN  ExpSeries(t, r, i + 1, -sign, acc + sign * t)

RECURSIVE Halve(_, _)
Halve(a, k) == IF k = 0 \/ a = 0 THEN a ELSE Halve(a \div 2, k - 1)

\* exp(-x) in 1/EFP, for x >= 0 in 1/EFP
ExpNeg6(x) == Halve(ExpSeries(EFP, x % ELN2, 1, -1, EFP), x \div ELN2)

RECURSIVE IsqrtIn(_, _, _)
IsqrtIn(val, lo, hi) ==
    IF hi - lo <= 1 THEN lo
    ELSE LET mid == (lo + hi) \div 2
         IN  IF mid * mid <= val THEN IsqrtIn(val, mid, hi) ELSE IsqrtIn(val, lo, mid)
Isqrt(val) == IsqrtIn(val, 0, 46341)

\* let len = if s >= 1.0 { 0 } else { (sigma * (-2.0 * s.log(E)).sqrt()).floor() as usize }
\* with s = (0.5 * PI).sqrt() * sigma * (1.0 / kernel_weight as f64).
\* sigma <= 0 or kernel_weight = 0 makes s or the product 0, NaN or infinite,
\* and the cast of NaN to usize gives 0.
GaussLen(sg, kw) ==
    IF sg <= 0 \/ kw = 0 THEN 0
    ELSE IF SQRT_HALF_PI * sg >= FP * SigmaDen * kw THEN 0
    ELSE LET ln_s == LN_SQRT_HALF_PI + LnFix(sg) - LnFix(SigmaDen * kw)
         IN  (sg * Isqrt((-2 * ln_s) * FP)) \div (SigmaDen * FP)

\* (kernel_weight as f64 * scale * E.powf(nhisigma2 * ci.pow(2) as f64) + 0.5) as i64
GaussVal(sg, kw, ci) ==
    LET x == (((ci * ci * SigmaDen * SigmaDen * 100000) \div (2 * sg * sg))) * 10
        a == (kw * SigmaDen * INV_SQRT_2PI) \div (sg * 1000)   \* kernel_weight * scale, in 1/100
        e == ExpNeg6(x)
        v100 == (a * (e \div 1000)) \div 1000 + (a * (e % 1000)) \div EFP
    IN  (v100 + 50) \div 100

RECURSIVE SumTo(_, _)
SumTo(f, n) == IF n = 0 THEN 0 ELSE f[n] + SumTo(f, n - 1)

RECURSIVE SeqSum(_)
SeqSum(q) == IF q = <<>> THEN 0 ELSE Head(q) + SeqSum(Tail(q))

\* let kernel_len = if len >= max_len { max_len - 1 } else { len };
\* -1 stands for the usize subtraction 0 - 1
KernelLen(len, ml) == IF len >= ml THEN ml - 1 ELSE len

\* kernel[kernel_len] = kernel_weight as i64 - (sum << 1);
CentreCoeff(kw, sum) == kw - 2 * sum

\* The kernel as a sequence (entry k of the Vec is kernel[k + 1]).  When
\* max_len - 1 underflows the call aborts: a panic with overflow checks on,
\* and without them a Vec of usize::MAX entries, which cannot be allocated.
build_gaussian_kernel(sg, ml, kw) ==
    LET len == GaussLen(sg, kw)
        kernel_len == KernelLen(len, ml)
    IN  IF kernel_len < 0 THEN [abort |-> TRUE, kernel |-> <<>>]
        ELSE LET kernel_size == 2 * kernel_len + 1
                 val == [ci \in 1..kernel_len |-> GaussVal(sg, kw, ci)]
                 sum == SumTo(val, kernel_len)
             IN  [abort |-> FALSE,
                  kernel |-> [k \in 1..kernel_size |->
                                 IF k - 1 = kernel_len THEN CentreCoeff(kw, sum)
                                 ELSE val[Abs(k - 1 - kernel_len)]]]

KernelWeights == {0, 1, 4, 16, 256, 1024}

InitKernel ==
    /\ sigma \in -1..MaxSigma
    /\ max_len \in 0..MaxLen
    /\ kernel_weight \in KernelWeights
    /\ kernel = NoKernel
    /\ pc = "entry"
    /\ IdleExcept({"kernel"})

CallBuildGaussianKernel ==
    /\ pc = "entry"
    /\ pc' = "returned"
    /\ kernel' = build_gaussian_kernel(sigma, max_len, kernel_weight)
    /\ UNCHANGED <<sigma, max_len, kernel_weight, notKernel>>

NextKernel == CallBuildGaussianKernel

SpecKernel == InitKernel /\ [][NextKernel]_vars

(* C3: for any sigma, max_len and kernel_weight, build_gaussian_kernel     *)
(* returns without aborting, and the entries of the kernel it returns sum  *)
(* exactly to kernel_weight.                                               *)
C3_KernelSumsToWeight ==
    pc = "returned" => (~kernel.abort /\ SeqSum(kernel.kernel) = kernel_weight)

-----------------------------------------------------------------------------
(* calculate_plane_ssim_internal (ssim.rs).  The moments are i64, exact.   *)
(* The f64 terms of a window are kept to 1/FX: c1 and c2 are whole         *)
(* numbers of 1/FX (SSIM_K1 = 1/10^4, SSIM_K2 = 9/10^4), and a quotient is *)
(* cut to 1/FX.                                                            *)

FX == 10000

\* a.saturating_sub(b) on usize
SatSub(a, b) == IF a > b THEN a - b ELSE 0

\* a buffer of half as many rows, rounded up
HalfRoundedUp(n) == (n + 1) \div 2

\* usize::next_power_of_two
RECURSIVE NextPow2From(_, _)
NextPow2From(n, p) == IF p >= n THEN p ELSE NextPow2From(n, 2 * p)
next_power_of_two(n) == NextPow2From(n, 1)

\* F(lo) + .. + F(hi - 1), the range halved at each step
RECURSIVE SumRange(_, _, _)
SumRange(F(_), lo, hi) ==
    IF lo >= hi THEN 0
    ELSE IF hi = lo + 1 THEN F(lo)
    ELSE SumRange(F, lo, (lo + hi) \div 2) + SumRange(F, (lo + hi) \div 2, hi)

\* floor(a * b / c) for a, b >= 0 < c, with no product of the two formed
RECURSIVE MulDivQR(_, _, _)
MulDivQR(a, b, c) ==
    IF a = 0 THEN <<0, 0>>
    ELSE LET h == MulDivQR(a \div 2, b, c)
             add == IF a % 2 = 1 THEN b ELSE 0
             t == 2 * h[2] + (add % c)
         IN  <<2 * h[1] + (add \div c) + (t \div c), t % c>>
MulDiv(a, b, c) == Sgn(a) * Sgn(b) * MulDivQR(Abs(a), Abs(b), c)[1]

\* the f64 quotient n / d of two whole numbers, cut to 1/FX
RQuot(n, d) ==
    IF d = 0 THEN RNorm(n, 0)
    ELSE RNorm(Sgn(d) * MulDiv(n, FX, Abs(d)), FX)

SsimMoments(a, b, c, d, e, f) == [mux |-> a, muy |-> b, x2 |-> c, xy |-> d, y2 |-> e, w |-> f]

\* a tap range that is not clipped at the right edge
HorizKMax_Unclipped(x, wd, hk) == Len(hk)

\* the clipped tap range k_min..k_max of the horizontal pass at column x
HorizKMin(x, hk) == SatSub(Len(hk) \div 2, x)
HorizKMax(x, wd, hk) == Len(hk) - SatSub(x + (Len(hk) \div 2) + 1, wd)
HorizTarget(x, k, hk) == SatSub(x + k, Len(hk) \div 2)

\* the horizontal pass for one pixel: the inner `for k in k_min..k_max`
HorizMoments(p1, p2, wd, yy, x, hk) ==
    LET k_min == HorizKMin(x, hk)
        k_max == HorizKMax(x, wd, hk)
        pix1(k) == p1[yy * wd + HorizTarget(x, k, hk) + 1]
        pix2(k) == p2[yy * wd + HorizTarget(x, k, hk) + 1]
    IN  SsimMoments(SumRange(LAMBDA k : hk[k + 1] * pix1(k), k_min, k_max),
                    SumRange(LAMBDA k : hk[k + 1] * pix2(k), k_min, k_max),
                    SumRange(LAMBDA k : hk[k + 1] * pix1(k) * pix1(k), k_min, k_max),
                    SumRange(LAMBDA k : hk[k + 1] * pix1(k) * pix2(k), k_min, k_max),
                    SumRange(LAMBDA k : hk[k + 1] * pix2(k) * pix2(k), k_min, k_max),
                    SumRange(LAMBDA k : hk[k + 1], k_min, k_max))

\* the clipped tap range of the vertical pass at step y, and the plane row tap k reads
VertKMin(yy, vk) == SatSub(Len(vk), yy + 1)
VertKMax(yy, ht, vk) == Len(vk) - SatSub(yy + 1, ht)
VertRow(yy, k, vk) == yy + 1 + k - Len(vk)

\* the vertical pass for one pixel: `for k in k_min..k_max` over the buffer
VertMoments(ln, ht, yy, x, vk) ==
    LET k_min == VertKMin(yy, vk)
        k_max == VertKMax(yy, ht, vk)
        line_mask == next_power_of_two(Len(vk)) - 1
        buf(k) == ln[VertRow(yy, k, vk) % (line_mask + 1)][x + 1]
    IN  SsimMoments(SumRange(LAMBDA k : vk[k + 1] * buf(k).mux, k_min, k_max),
                    SumRange(LAMBDA k : vk[k + 1] * buf(k).muy, k_min, k_max),
                    SumRange(LAMBDA k : vk[k + 1] * buf(k).x2, k_min, k_max),
                    SumRange(LAMBDA k : vk[k + 1] * buf(k).xy, k_min, k_max),
                    SumRange(LAMBDA k : vk[k + 1] * buf(k).y2, k_min, k_max),
                    SumRange(LAMBDA k : vk[k + 1] * buf(k).w, k_min, k_max))

\* c1 and c2 in 1/FX: sample_max.pow(2) as f64 * SSIM_K1 (SSIM_K2) * w.powi(2)
C1Fx(sm, w) == sm * sm * w * w
C2Fx(sm, w) == 9 * sm * sm * w * w

\* cs_tmp = w * (c2 + 2.0 * (xy * w - mxy)) / (x2 * w - mx2 + y2 * w - my2 + c2)
CsTmp(m, sm) ==
    LET w == m.w
        mx2 == m.mux * m.mux
        mxy == m.mux * m.muy
        my2 == m.muy * m.muy
    IN  RQuot(w * (C2Fx(sm, w) + 2 * FX * (m.xy * w - mxy)),
              FX * (m.x2 * w - mx2 + m.y2 * w - my2) + C2Fx(sm, w))

\* cs_tmp * (2.0 * mxy + c1) / (mx2 + my2 + c1)
SsimTmp(m, sm) ==
    LET w == m.w
        c == CsTmp(m, sm)
        a == 2 * FX * (m.mux * m.muy) + C1Fx(sm, w)
        b == FX * (m.mux * m.mux + m.muy * m.muy) + C1Fx(sm, w)
    IN  IF c[2] = 0 \/ b = 0 THEN RDiv(RMul(c, <<Sgn(a), 1>>), <<Sgn(b), 1>>)
        ELSE RNorm(Sgn(b) * MulDiv(c[1] * (FX \div c[2]), a, Abs(b)), FX)

\* the vertical pass over columns 0..x-1 of one output row: what it adds to
\* <<ssim, cs, ssimw>>
RECURSIVE VertPass(_, _, _, _, _, _, _)
VertPass(acc, ln, ht, yy, x, vk, sm) ==
    IF x = 0 THEN acc
    ELSE LET prev == VertPass(acc, ln, ht, yy, x - 1, vk, sm)
             m == VertMoments(ln, ht, yy, x - 1, vk)
         IN  <<RAdd(prev[1], SsimTmp(m, sm)),
               RAdd(prev[2], CsTmp(m, sm)),
               RAdd(prev[3], R(m.w))>>

\* planes whose sample (x, y) is (a x + b y + c) mod (sample_max + 1)
PlaneData(wd, ht, sm, a, b, c) ==
    [i \in 1..(wd * ht) |-> (a * ((i - 1) % wd) + b * ((i - 1) \div wd) + c) % (sm + 1)]

\* the kernels the passes are run with: build_gaussian_kernel's for
\* (sigma, max_len, kernel_weight) = (1.0, 2, 4), (1.0, 1, 4) and (0.5, 1, 1)
SsimKernels ==
    {build_gaussian_kernel(t[1], t[2], t[3]).kernel : t \in {<<4, 2, 4>>, <<4, 1, 4>>, <<2, 1, 1>>}}

InitSsim ==
    /\ width \in 0..MaxSsimDim
    /\ height \in 0..MaxSsimDim
    /\ \E bd \in 1..MaxSsimDepth :
         /\ sample_max = SampleMax(bd)
         /\ \E a \in 0..1, b \in 0..1, c \in 0..1 :
                plane1 = PlaneData(width, height, sample_max, a, b, c)
         /\ \E a \in 0..1, b \in 0..1, c \in 0..1 :
                plane2 = PlaneData(width, height, sample_max, a, b, c)
    /\ vert_kernel \in SsimKernels
    /\ horiz_kernel = vert_kernel
    /\ row_y = 0
    /\ lines = [i \in 0..(next_power_of_two(Len(vert_kernel)) - 1) |->
                   [x \in 1..width |-> SsimMoments(0, 0, 0, 0, 0, 0)]]
    /\ ssim = R(0) /\ ssimw = R(0) /\ cs = R(0)
    /\ ssim_ret = <<>>
    /\ pc = "loop"
    /\ IdleExcept({"planes", "ssim"})

\* one iteration of `for y in 0..(height + vert_offset)`
SsimRow ==
    /\ pc = "loop"
    /\ row_y < height + (Len(vert_kernel) \div 2)
    /\ LET line_mask == next_power_of_two(Len(vert_kernel)) - 1
           filled == IF row_y < height
                     THEN [lines EXCEPT ![row_y % (line_mask + 1)] =
                              [x \in 1..width |->
                                  HorizMoments(plane1, plane2, width, row_y, x - 1, horiz_kernel)]]
                     ELSE lines
           acc == IF row_y >= Len(vert_kernel) \div 2
                  THEN VertPass(<<ssim, cs, ssimw>>, filled, height, row_y, width,
                                vert_kernel, sample_max)
                  ELSE <<ssim, cs, ssimw>>
       IN  /\ lines' = filled
           /\ ssim' = acc[1] /\ cs' = acc[2] /\ ssimw' = acc[3]
    /\ row_y' = row_y + 1
    /\ UNCHANGED <<pc, ssimArgs, ssim_ret, notSsim>>

\* (ssim / ssimw, cs / ssimw)
SsimReturn ==
    /\ pc = "loop"
    /\ row_y = height + (Len(vert_kernel) \div 2)
    /\ pc' = "returned"
    /\ ssim_ret' = <<RDiv(ssim, ssimw), RDiv(cs, ssimw)>>
    /\ UNCHANGED <<ssimArgs, row_y, lines, ssim, ssimw, cs, notSsim>>

NextSsim == SsimRow \/ SsimReturn

SpecSsim == InitSsim /\ [][NextSsim]_vars

(* C4: given two identical planes of any size, every window's cs term and  *)
(* SSIM term equal the window's weight W (so the accumulators ssim and cs  *)
(* equal ssimw throughout), and the returned SSIM and cs scores are both   *)
(* exactly 1.                                                              *)
C4_IdenticalPlanesScoreOne ==
    plane1 = plane2 =>
        /\ ssim = ssimw /\ cs = ssimw
        /\ pc = "returned" => ssim_ret = <<R(1), R(1)>>

\* the same for planes with at least one sample
C4_NonEmptyIdenticalScoreOne ==
    (plane1 = plane2 /\ width > 0 /\ height > 0) =>
        /\ ssim = ssimw /\ cs = ssimw
        /\ pc = "returned" => ssim_ret = <<R(1), R(1)>>

-----------------------------------------------------------------------------
(* calculate_plane_ssim_internal again, for its indexing alone: the same   *)
(* loops, tap ranges and buffer slots, with each SsimMoments kept as the   *)
(* taps it sums (which kernel entry, which sample or row) instead of the   *)
(* sums.  A buffer entry is [row, taps]: the plane row it was computed     *)
(* for, and its taps <<k, target_x>>; SsimMoments::default() has row -1.   *)
(* A window is [x, y, taps]: the column, the loop step, and its taps       *)
(* <<k, row, entry>>, entry being what the buffer slot held when read.     *)

MaxWinWidth == 5
MaxWinHeight == 10
MaxKernelLen == 7

DefaultTaps == [row |-> 0 - 1, taps |-> {}]

\* the horizontal pass for one pixel, as the taps it sums
HorizTaps(wd, yy, x, hk) ==
    [row |-> yy,
     taps |-> {<<k, HorizTarget(x, k, hk)>> :
                  k \in HorizKMin(x, hk)..(HorizKMax(x, wd, hk) - 1)}]

\* the vertical pass for one pixel, as the taps it sums
VertTaps(ln, ht, yy, x, vk) ==
    [x |-> x, y |-> yy,
     taps |-> {<<k, VertRow(yy, k, vk),
                 ln[VertRow(yy, k, vk) % next_power_of_two(Len(vk))][x + 1]>> :
                  k \in VertKMin(yy, vk)..(VertKMax(yy, ht, vk) - 1)}]

\* kernels of odd length; the entries do not matter to the indexing
OddKernels == {[i \in 1..n |-> 1] : n \in {m \in 1..MaxKernelLen : m % 2 = 1}}

InitWindow ==
    /\ width \in 0..MaxWinWidth
    /\ height \in 0..MaxWinHeight
    /\ plane1 = PlaneData(width, height, 0, 0, 0, 0)
    /\ plane2 = plane1
    /\ sample_max = 0
    /\ vert_kernel \in OddKernels
    /\ horiz_kernel \in OddKernels
    /\ row_y = 0
    /\ lines = [i \in 0..(next_power_of_two(Len(vert_kernel)) - 1) |->
                   [x \in 1..width |-> DefaultTaps]]
    /\ ssim = R(0) /\ ssimw = R(0) /\ cs = R(0)
    /\ ssim_ret = <<>>
    /\ windows = <<>>
    /\ pc = "window_loop"
    /\ IdleExcept({"planes", "ssim", "window"})

\* one iteration of `for y in 0..(height + vert_offset)`
WindowRow ==
    /\ pc = "window_loop"
    /\ row_y < height + (Len(vert_kernel) \div 2)
    /\ LET line_mask == next_power_of_two(Len(vert_kernel)) - 1
           filled == IF row_y < height
                     THEN [lines EXCEPT ![row_y % (line_mask + 1)] =
                              [x \in 1..width |->
                                  HorizTaps(width, row_y, x - 1, horiz_kernel)]]
                     ELSE lines
       IN  /\ lines' = filled
           /\ windows' = IF row_y >= Len(vert_kernel) \div 2
                          THEN windows \o [x \in 1..width |->
                                   VertTaps(filled, height, row_y, x - 1, vert_kernel)]
                          ELSE windows
    /\ row_y' = row_y + 1
    /\ UNCHANGED <<pc, ssimArgs, ssim, ssimw, cs, ssim_ret, notWindow>>

\* the end of the loop
WindowReturn ==
    /\ pc = "window_loop"
    /\ row_y = height + (Len(vert_kernel) \div 2)
    /\ pc' = "returned"
    /\ UNCHANGED <<ssimArgs, row_y, lines, ssim, ssimw, cs, ssim_ret, windows, notWindow>>

NextWindow == WindowRow \/ WindowReturn

SpecWindow == InitWindow /\ [][NextWindow]_vars

\* the taps of a kernel of length n, centred on position c, whose source
\* position c + k - n \div 2 exists among 0..(size - 1)
ExistingTaps(n, c, size) ==
    {<<k, c + k - (n \div 2)>> : k \in {j \in 0..(n - 1) : c + j - (n \div 2) \in 0..(size - 1)}}

(* C14: in the horizontal pass the taps summed for column x of a row are   *)
(* exactly the kernel entries whose source column x + k - offset exists,   *)
(* each reading that column; in the vertical pass the taps summed for an   *)
(* output row are exactly the kernel entries whose source row exists, each *)
(* reading that row; every window is for a pixel position of the plane, no *)
(* position has two windows, and at the end there is one window for each   *)
(* of the width x height positions.                                        *)
C14_TapsClippedToPlane ==
    /\ \A i \in DOMAIN lines : \A x \in 1..width :
          lines[i][x].row >= 0 =>
              /\ lines[i][x].taps = ExistingTaps(Len(horiz_kernel), x - 1, width)
              /\ \A t \in lines[i][x].taps :
                     lines[i][x].row * width + t[2] + 1 \in DOMAIN plane1
    /\ \A i \in 1..Len(windows) :
          LET w == windows[i]
              out == w.y - (Len(vert_kernel) \div 2)
          IN  /\ w.x \in 0..(width - 1) /\ out \in 0..(height - 1)
              /\ {<<t[1], t[2]>> : t \in w.taps} = ExistingTaps(Len(vert_kernel), out, height)
              /\ \A j \in 1..Len(windows) :
                     (windows[j].x = w.x /\ windows[j].y = w.y) => j = i
    /\ pc = "returned" => Len(windows) = width * height

\* a plane narrower than the horizontal kernel and taller than the vertical one
C14_Witness ==
    /\ pc = "returned"
    /\ width > 1 /\ Len(horiz_kernel) > width + 1
    /\ Len(vert_kernel) > 1 /\ height > Len(vert_kernel)
    /\ Len(windows) = width * height

(* C16: whenever the vertical pass reads the buffer slot of plane row r,   *)
(* the slot holds the horizontal moments computed for row r: no later row  *)
(* has overwritten it, and it is not an unwritten default entry.           *)
C16_SlotHoldsItsRow ==
    \A i \in 1..Len(windows) : \A t \in windows[i].taps : t[3].row = t[2]

\* more rows than the buffer has slots, so that slots were reused
C16_Witness ==
    /\ pc = "returned"
    /\ Len(vert_kernel) > 3
    /\ height > next_power_of_two(Len(vert_kernel)) + 1
    /\ width > 0
    /\ Len(windows) = width * height

-----------------------------------------------------------------------------
(* msssim_downscale (ssim.rs).  The samples are u32; those of the model    *)
(* are far below the width of u32.  An index outside the input aborts the  *)
(* call (the slice index panics).                                          *)

MaxDownDim == 5
MaxDownDepth == 2

\* an output grid of the halves rounded up
OutputDim_Ceil(n) == (n + 1) \div 2

\* input_width / 2, input_height / 2
OutputDim(n) == n \div 2

\* the four indices read for output sample (i, j): rows j0, j1, columns i0, i1
DownReads(i, j, iw, ih) ==
    LET j0 == 2 * j
        j1 == Min(j0 + 1, ih - 1)
        i0 == 2 * i
        i1 == Min(i0 + 1, iw - 1)
    IN  <<j0 * iw + i0, j0 * iw + i1, j1 * iw + i0, j1 * iw + i1>>

msssim_downscale(inp, iw, ih) ==
    LET output_width == OutputDim(iw)
        output_height == OutputDim(ih)
        at(n) == DownReads((n - 1) % output_width, (n - 1) \div output_width, iw, ih)
        reads == UNION {{at(n)[q] : q \in 1..4} : n \in 1..(output_width * output_height)}
    IN  IF \E r \in reads : r >= Len(inp)
        THEN [abort |-> TRUE, output |-> <<>>, reads |-> reads]
        ELSE [abort |-> FALSE,
              output |-> [n \in 1..(output_width * output_height) |->
                             inp[at(n)[1] + 1] + inp[at(n)[2] + 1]
                                 + inp[at(n)[3] + 1] + inp[at(n)[4] + 1]],
              reads |-> reads]

InitDown ==
    /\ input_width \in 0..MaxDownDim
    /\ input_height \in 0..MaxDownDim
    /\ \E a \in 0..1, b \in 0..1, c \in 0..1 :
           input = PlaneData(input_width, input_height, SampleMax(MaxDownDepth), a, b, c)
    /\ output = NoOutput
    /\ pc = "downscale"
    /\ IdleExcept({"downscale"})

CallMsssimDownscale ==
    /\ pc = "downscale"
    /\ output' = msssim_downscale(input, input_width, input_height)
    /\ pc' = IF output'.abort THEN "panicked" ELSE "returned"
    /\ UNCHANGED <<input, input_width, input_height, notDown>>

NextDown == CallMsssimDownscale

SpecDown == InitDown /\ [][NextDown]_vars

\* the input sample at column i, row j
InputAt(i, j) == input[j * input_width + i + 1]

(* C15: for every input width and height msssim_downscale returns a grid   *)
(* of floor(width / 2) x floor(height / 2) samples; the sample at column   *)
(* i, row j is the sum of the input samples at rows 2j and                 *)
(* min(2j + 1, height - 1) and columns 2i and min(2i + 1, width - 1); and  *)
(* every index read is inside the input, so the call does not abort.       *)
C15_DownscaleSumsFourInside ==
    pc # "downscale" =>
        /\ pc = "returned" /\ ~output.abort
        /\ Len(output.output) = (input_width \div 2) * (input_height \div 2)
        /\ \A j \in 0..((input_height \div 2) - 1) : \A i \in 0..((input_width \div 2) - 1) :
               output.output[j * (input_width \div 2) + i + 1] =
                   InputAt(2 * i, 2 * j)
                       + InputAt(Min(2 * i + 1, input_width - 1), 2 * j)
                       + InputAt(2 * i, Min(2 * j + 1, input_height - 1))
                       + InputAt(Min(2 * i + 1, input_width - 1), Min(2 * j + 1, input_height - 1))
        /\ \A r \in output.reads : r \in 0..(Len(input) - 1)
        /\ \A r \in output.reads :
               r % input_width < 2 * (input_width \div 2)
                   /\ r \div input_width < 2 * (input_height \div 2)

\* both dimensions odd, and a grid of more than one row and column
C15_Witness ==
    /\ pc = "returned"
    /\ input_width % 2 = 1 /\ input_height % 2 = 1
    /\ input_width > 4 /\ input_height > 4
    /\ Len(output.output) = 4
    /\ \E n \in 1..4 : output.output[n] > 0

-----------------------------------------------------------------------------
(* calculate_plane_msssim (ssim.rs): the five scales, with the i64 moments *)
(* of calculate_plane_ssim_internal at their true size.  The moments go    *)
(* beyond the integers of the checker, so they are held as numbers of any  *)
(* length (the digits in base WB, lowest first); samples, kernel entries   *)
(* and moments are never negative.  An i64 that would exceed I64_MAX       *)
(* overflows: the build with overflow checks aborts there, the build       *)
(* without them goes on with the wrapped value; the model stops at that    *)
(* point.  The f64 scores of a scale are those of SpecSsim and are not     *)
(* computed again here.                                                    *)

WB == 10000
MsDim == 16          \* width and height of the planes given to MS-SSIM
MaxMsDepth == 16     \* their bit depth, up to the 16 bits of the widest pixel

RECURSIVE Wide(_)
Wide(n) == IF n = 0 THEN <<>> ELSE <<n % WB>> \o Wide(n \div WB)

RECURSIVE WAddC(_, _, _)
WAddC(a, b, carry) ==
    IF a = <<>> /\ b = <<>> THEN (IF carry = 0 THEN <<>> ELSE <<carry>>)
    ELSE LET t == (IF a = <<>> THEN 0 ELSE a[1]) + (IF b = <<>> THEN 0 ELSE b[1]) + carry
         IN  <<t % WB>> \o WAddC(IF a = <<>> THEN a ELSE Tail(a),
                                 IF b = <<>> THEN b ELSE Tail(b), t \div WB)
WAdd(a, b) == WAddC(a, b, 0)

\* a * m for a whole number m below 10^5
RECURSIVE WMulIntC(_, _, _)
WMulIntC(a, m, carry) ==
    IF a = <<>> THEN Wide(carry)
    ELSE LET t == a[1] * m + carry
         IN  <<t % WB>> \o WMulIntC(Tail(a), m, t \div WB)
WMulInt(a, m) == IF m = 0 \/ a = <<>> THEN <<>> ELSE WMulIntC(a, m, 0)

RECURSIVE WMul(_, _)
WMul(a, b) ==
    IF b = <<>> THEN <<>>
    ELSE LET r == WMul(a, Tail(b))
         IN  WAdd(WMulInt(a, b[1]), IF r = <<>> THEN r ELSE <<0>> \o r)

RECURSIVE WCmpFrom(_, _, _)
WCmpFrom(a, b, i) ==
    IF i = 0 THEN 0
    ELSE IF a[i] < b[i] THEN 0 - 1
    ELSE IF a[i] > b[i] THEN 1
    ELSE WCmpFrom(a, b, i - 1)
WLeq(a, b) == Len(a) < Len(b) \/ (Len(a) = Len(b) /\ WCmpFrom(a, b, Len(a)) <= 0)
WMax(a, b) == IF WLeq(a, b) THEN b ELSE a

\* i64::MAX = 9223372036854775807
I64_MAX == <<5807, 5477, 368, 3372, 922>>

\* F(lo) + .. + F(hi - 1) of such numbers
RECURSIVE WSumRange(_, _, _)
WSumRange(F(_), lo, hi) ==
    IF lo >= hi THEN <<>>
    ELSE IF hi = lo + 1 THEN F(lo)
    ELSE WAdd(WSumRange(F, lo, (lo + hi) \div 2), WSumRange(F, (lo + hi) \div 2, hi))

\* the largest of the six fields
MomentMax(m) == WMax(WMax(WMax(m.mux, m.muy), WMax(m.x2, m.xy)), WMax(m.y2, m.w))

\* the horizontal pass for one pixel
HorizMomentsWide(p1, p2, wd, yy, x, hk) ==
    LET k_min == HorizKMin(x, hk)
        k_max == HorizKMax(x, wd, hk)
        pix1(k) == Wide(p1[yy * wd + HorizTarget(x, k, hk) + 1])
        pix2(k) == Wide(p2[yy * wd + HorizTarget(x, k, hk) + 1])
    IN  SsimMoments(WSumRange(LAMBDA k : WMulInt(pix1(k), hk[k + 1]), k_min, k_max),
                    WSumRange(LAMBDA k : WMulInt(pix2(k), hk[k + 1]), k_min, k_max),
                    WSumRange(LAMBDA k : WMulInt(WMul(pix1(k), pix1(k)), hk[k + 1]), k_min, k_max),
                    WSumRange(LAMBDA k : WMulInt(WMul(pix1(k), pix2(k)), hk[k + 1]), k_min, k_max),
                    WSumRange(LAMBDA k : WMulInt(WMul(pix2(k), pix2(k)), hk[k + 1]), k_min, k_max),
                    WSumRange(LAMBDA k : Wide(hk[k + 1]), k_min, k_max))

\* the vertical pass for one pixel
VertMomentsWide(ln, ht, yy, x, vk) ==
    LET k_min == VertKMin(yy, vk)
        k_max == VertKMax(yy, ht, vk)
        buf(k) == ln[VertRow(yy, k, vk) % next_power_of_two(Len(vk))][x + 1]
    IN  SsimMoments(WSumRange(LAMBDA k : WMulInt(buf(k).mux, vk[k + 1]), k_min, k_max),
                    WSumRange(LAMBDA k : WMulInt(buf(k).muy, vk[k + 1]), k_min, k_max),
                    WSumRange(LAMBDA k : WMulInt(buf(k).x2, vk[k + 1]), k_min, k_max),
                    WSumRange(LAMBDA k : WMulInt(buf(k).xy, vk[k + 1]), k_min, k_max),
                    WSumRange(LAMBDA k : WMulInt(buf(k).y2, vk[k + 1]), k_min, k_max),
                    WSumRange(LAMBDA k : WMulInt(buf(k).w, vk[k + 1]), k_min, k_max))

\* the largest moment among those of a row of moments
RECURSIVE RowMax(_, _)
RowMax(row, n) == IF n = 0 THEN <<>> ELSE WMax(RowMax(row, n - 1), MomentMax(row[n]))

\* const KERNEL_WEIGHT: usize = 1 << KERNEL_SHIFT
KERNEL_SHIFT == 10
KERNEL_WEIGHT == Pow2(KERNEL_SHIFT)
\* build_gaussian_kernel(1.5, 5, KERNEL_WEIGHT)
MsKernel == build_gaussian_kernel(6, 5, KERNEL_WEIGHT).kernel

DefaultWide == SsimMoments(<<>>, <<>>, <<>>, <<>>, <<>>, <<>>)
EmptyLines(vk, wd) ==
    [i \in 0..(next_power_of_two(Len(vk)) - 1) |-> [x \in 1..wd |-> DefaultWide]]

\* planes of samples 0..sm: all at sm, or (x + 2 y) mod (sm + 1)
MsPlane(wd, ht, sm, flat) ==
    [i \in 1..(wd * ht) |->
        IF flat THEN sm ELSE (((i - 1) % wd) + 2 * ((i - 1) \div wd)) % (sm + 1)]

InitMs ==
    /\ ms_bit_depth \in 1..MaxMsDepth
    /\ width = MsDim /\ height = MsDim
    /\ sample_max = SampleMax(ms_bit_depth)
    /\ plane1 = MsPlane(width, height, sample_max, TRUE)
    /\ \E flat \in BOOLEAN : plane2 = MsPlane(width, height, sample_max, flat)
    /\ vert_kernel = MsKernel /\ horiz_kernel = MsKernel
    /\ scale = 0
    /\ row_y = 0
    /\ lines = EmptyLines(vert_kernel, width)
    /\ max_moment = <<>>
    /\ ssim = R(0) /\ ssimw = R(0) /\ cs = R(0)
    /\ ssim_ret = <<>>
    /\ pc = "ms_loop"
    /\ IdleExcept({"planes", "ssim", "msssim"})

\* one iteration of `for y in 0..(height + vert_offset)` at the scale under way
MsRow ==
    /\ pc = "ms_loop"
    /\ row_y < height + (Len(vert_kernel) \div 2)
    /\ LET line_mask == next_power_of_two(Len(vert_kernel)) - 1
           filled == IF row_y < height
                     THEN [lines EXCEPT ![row_y % (line_mask + 1)] =
                              [x \in 1..width |->
                                  HorizMomentsWide(plane1, plane2, width, row_y, x - 1,
                                                   horiz_kernel)]]
                     ELSE lines
           hmax == IF row_y < height THEN RowMax(filled[row_y % (line_mask + 1)], width)
                   ELSE <<>>
           vmax == IF row_y >= Len(vert_kernel) \div 2
                   THEN RowMax([x \in 1..width |->
                                   VertMomentsWide(filled, height, row_y, x - 1, vert_kernel)],
                               width)
                   ELSE <<>>
       IN  /\ lines' = filled
           /\ max_moment' = WMax(max_moment, WMax(hmax, vmax))
           /\ pc' = IF WLeq(max_moment', I64_MAX) THEN "ms_loop" ELSE "overflowed"
    /\ row_y' = row_y + 1
    /\ UNCHANGED <<planeArgs, sample_max, vert_kernel, horiz_kernel, ssim, ssimw, cs, ssim_ret,
                   ms_bit_depth, scale, notMs>>

\* the head of `for i in 1..5`: downscale both planes, halve the size,
\* sample_max *= 4
MsNextScale ==
    /\ pc = "ms_loop"
    /\ row_y = height + (Len(vert_kernel) \div 2)
    /\ scale < 4
    /\ plane1' = msssim_downscale(plane1, width, height).output
    /\ plane2' = msssim_downscale(plane2, width, height).output
    /\ width' = width \div 2
    /\ height' = height \div 2
    /\ sample_max' = sample_max * 4
    /\ scale' = scale + 1
    /\ row_y' = 0
    /\ lines' = EmptyLines(vert_kernel, width')
    /\ UNCHANGED <<pc, vert_kernel, horiz_kernel, ssim, ssimw, cs, ssim_ret, ms_bit_depth,
                   max_moment, notMs>>

\* after the last scale
MsReturn ==
    /\ pc = "ms_loop"
    /\ row_y = height + (Len(vert_kernel) \div 2)
    /\ scale = 4
    /\ pc' = "returned"
    /\ UNCHANGED <<planeArgs, ssimOwn, msOwn, notMs>>

NextMs == MsRow \/ MsNextScale \/ MsReturn

SpecMs == InitMs /\ [][NextMs]_vars

\* 4^i
Pow4(i) == Pow2(2 * i)

\* the samples of both planes are within the bound of the scale under way
SamplesWithinScaleBound ==
    /\ sample_max = SampleMax(ms_bit_depth) * Pow4(scale)
    /\ \A n \in 1..Len(plane1) : plane1[n] <= SampleMax(ms_bit_depth) * Pow4(scale)
    /\ \A n \in 1..Len(plane2) : plane2[n] <= SampleMax(ms_bit_depth) * Pow4(scale)

(* C17: for every bit depth from 1 to 16 and each of the five scales, the  *)
(* samples at scale i are at most (2^bit_depth - 1) * 4^i, and every       *)
(* SsimMoments field accumulated, in the horizontal and in the vertical    *)
(* pass with kernel weight 1024, is within i64.                            *)
C17_MomentsFitI64 ==
    /\ SamplesWithinScaleBound
    /\ WLeq(max_moment, I64_MAX)
    /\ pc # "overflowed"

\* the part that holds at every bit depth: the bound on the samples
C17_SamplesBounded == SamplesWithinScaleBound

\* the moments are within i64 on planes of this size up to 15 bits
C17_MomentsFitBelow16Bits ==
    ms_bit_depth < 16 => (WLeq(max_moment, I64_MAX) /\ pc # "overflowed")

-----------------------------------------------------------------------------
(* calculate_plane_psnr_hvs (psnr_hvs.rs).  The DCT is integer and exact.  *)
(* The CSF tables are kept to 1/CX, the masking table to 1/MX, a block's   *)
(* masking threshold to 1/1000 and each term of `result` to 1/CX.          *)

STEP == 7
DCT_STRIDE == 8
CX == 10000
MX == 1000000

CSF_Y ==
    <<<<16194, 22902, 20851, 14837, 10023, 6783, 4662, 3265>>,
      <<22902, 19432, 20479, 16873, 12306, 8689, 6128, 4364>>,
      <<20851, 20479, 13433, 10921, 8757, 6709, 5017, 3725>>,
      <<14837, 16873, 10921, 7728, 6056, 4831, 3804, 2958>>,
      <<10023, 12306, 8757, 6056, 4490, 3529, 2830, 2270>>,
      <<6783, 8689, 6709, 4831, 3529, 2703, 2150, 1741>>,
      <<4662, 6128, 5017, 3804, 2830, 2150, 1689, 1362>>,
      <<3265, 4364, 3725, 2958, 2270, 1741, 1362, 1091>>>>

CSF_CB420 ==
    <<<<19111, 24607, 11828, 11498, 10502, 8980, 7473, 6151>>,
      <<24607, 15853, 12136, 13819, 13310, 11743, 9964, 8309>>,
      <<11828, 12136, 9787, 10262, 10315, 9601, 8498, 7312>>,
      <<11498, 13819, 10262, 8613, 8018, 7514, 6854, 6087>>,
      <<10502, 13310, 10315, 8018, 6766, 6055, 5500, 4958>>,
      <<8980, 11743, 9601, 7514, 6055, 5147, 4544, 4071>>,
      <<7473, 9964, 8498, 6854, 5500, 4544, 3892, 3424>>,
      <<6151, 8309, 7312, 6087, 4958, 4071, 3424, 2955>>>>

CSF_CR420 ==
    <<<<20387, 26250, 12618, 11102, 10140, 8671, 7215, 5939>>,
      <<26250, 16911, 11718, 13343, 12851, 11338, 9621, 8023>>,
      <<12618, 11718, 9450, 9909, 9959, 9270, 8205, 7060>>,
      <<11102, 13343, 9909, 8316, 7742, 7255, 6618, 5877>>,
      <<10140, 12851, 9959, 7742, 6532, 5846, 5311, 4787>>,
      <<8671, 11338, 9270, 7255, 5846, 4969, 4387, 3930>>,
      <<7215, 9621, 8205, 6618, 5311, 4387, 3758, 3306>>,
      <<5939, 8023, 7060, 5877, 4787, 3930, 3306, 2853>>>>

\* 0.3885746225901003, in 1/100000
CSF_MULTIPLIER == 38857

\* `match plane_idx`
CsfTable(idx) == IF idx = 0 THEN CSF_Y ELSE IF idx = 1 THEN CSF_CB420 ELSE CSF_CR420

\* mask[x][y] = (csf[x][y] * CSF_MULTIPLIER).powi(2), in 1/MX
MaskFx(csf, i, j) ==
    LET a == (csf[i + 1][j + 1] * CSF_MULTIPLIER + 50000) \div 100000
    IN  (a * a + 50) \div 100

\* i16::cast_from of a u8 or u16 sample
CastI16(s) == IF s >= 32768 THEN s - 65536 ELSE s

\* a >> n on an i32 (arithmetic)
RECURSIVE Shr(_, _)
Shr(a, n) == IF n = 0 THEN a ELSE Shr(a \div 2, n - 1)

\* 2^k - 1
RECURSIVE LowMask(_)
LowMask(k) == IF k = 0 THEN 0 ELSE 2 * LowMask(k - 1) + 1

\* (a as u32 >> n) as i32, for 0 < n < 32
ShrU32(a, n) == IF a >= 0 THEN Shr(a, n) ELSE LowMask(32 - n) - Shr(-(a + 1), n)

\* the width of an i32 and of a u32
I32_BITS == 32
I32_MAX == LowMask(I32_BITS - 1)
I32_MIN == -I32_MAX - 1

\* p + q on i32 leaves the type (p is never negative here)
AddOverflowsI32(p, q) == q > 0 /\ p > I32_MAX - q

\* p + q on i32 in a build without overflow checks: modulo 2^32
WrappingAddI32(p, q) ==
    IF AddOverflowsI32(p, q) THEN ((p + I32_MIN) + q) + I32_MIN ELSE p + q

\* the addition in od_dct_rshift leaves i32: a panic in a build with
\* overflow checks
RshiftOverflows(a, b) == AddOverflowsI32(ShrU32(a, I32_BITS - b), a)

\* ((a as u32 >> (32 - b)) as i32 + a) >> b, the value when it does not panic
od_dct_rshift(a, b) == Shr(WrappingAddI32(ShrU32(a, I32_BITS - b), a), b)

\* ---------------------------------------------------------------------------
\* od_dct_rshift, one call
\* ---------------------------------------------------------------------------

\* arguments within MaxSmallArg of zero, and within MaxOffset of a power of
\* two or of an end of i32
MaxSmallArg == 40
MaxOffset == 3

RshiftArgs ==
    LET near == (-MaxOffset)..MaxOffset
    IN  ((-MaxSmallArg)..MaxSmallArg)
        \cup {Pow2(k) + d : k \in 2..(I32_BITS - 2), d \in near}
        \cup {-(Pow2(k) + d) : k \in 2..(I32_BITS - 2), d \in near}
        \cup {I32_MAX - d : d \in 0..MaxOffset}
        \cup {I32_MIN + d : d \in 0..MaxOffset}

\* the shifts the two debug assertions admit and that leave 32 - b a shift
\* of a u32
RshiftShifts == 1..(I32_BITS - 1)

InitRshift ==
    /\ pc = "rshift"
    /\ rshift_a \in RshiftArgs
    /\ rshift_b \in RshiftShifts
    /\ rshift_checks \in BOOLEAN
    /\ rshift_ret = 0
    /\ IdleExcept({"rshift"})

CallOdDctRshift ==
    /\ pc = "rshift"
    /\ IF rshift_checks /\ RshiftOverflows(rshift_a, rshift_b)
       THEN /\ pc' = "panicked"
            /\ UNCHANGED rshift_ret
       ELSE /\ pc' = "returned"
            /\ rshift_ret' = od_dct_rshift(rshift_a, rshift_b)
    /\ UNCHANGED <<rshift_a, rshift_b, rshift_checks, notRshift>>

NextRshift == CallOdDctRshift

SpecRshift == InitRshift /\ [][NextRshift]_vars

\* a / d on i32, the quotient truncated toward zero, for d > 0
TruncDiv(a, d) == IF a >= 0 \/ a % d = 0 THEN a \div d ELSE (a \div d) + 1

\* a / 2^b truncated toward zero, for an i32 a and 0 < b < 32
DivByPow2(a, b) ==
    IF b = I32_BITS - 1 THEN (IF a = I32_MIN THEN -1 ELSE 0)
    ELSE TruncDiv(a, Pow2(b))

\* C18: od_dct_rshift(a, b) returns a / (1 << b) truncated toward zero, for
\* every i32 a and every shift b with 0 < b < 32.
C18_RshiftIsTruncatingDivision ==
    /\ pc # "panicked"
    /\ pc = "returned" => rshift_ret = DivByPow2(rshift_a, rshift_b)

\* a is within 32 - b bits: -2^(32 - b) <= a < 2^(32 - b)
RshiftInRange(a, b) == Shr(a, I32_BITS - b) \in {0, -1}

\* od_dct_rshift(a, b) returns a / (1 << b) truncated toward zero, without
\* overflow, whenever -2^(32 - b) <= a < 2^(32 - b): for b = 1, the only
\* shift the DCT uses, that is every i32.
C18_RshiftExactInRange ==
    RshiftInRange(rshift_a, rshift_b) =>
        /\ pc # "panicked"
        /\ pc = "returned" => rshift_ret = DivByPow2(rshift_a, rshift_b)

\* with b = 1 every i32 is in range
C18_ShiftOneAlwaysInRange ==
    rshift_b = 1 => RshiftInRange(rshift_a, rshift_b)

\* the array of n elements F(0), .., F(n - 1), held as a sequence: element k
\* of the array is at k + 1
RECURSIVE ArrayFrom(_, _, _)
ArrayFrom(F(_), lo, hi) ==
    IF lo >= hi THEN <<>>
    ELSE IF hi = lo + 1 THEN <<F(lo)>>
    ELSE ArrayFrom(F, lo, (lo + hi) \div 2) \o ArrayFrom(F, (lo + hi) \div 2, hi)
ArrayOf(F(_), n) == ArrayFrom(F, 0, n)

\* F applied to the value of val, with val worked out once
WithValue(val, F(_)) == CHOOSE r \in {F(e) : e \in {val}} : TRUE

\* od_bin_fdct8(y, x) with x = &data[off..]: the eight values written to y
od_bin_fdct8(data, off) ==
    LET x(k) == data[off + k * DCT_STRIDE + 1]
        \* Initial permutation
        t0 == x(0)
        t4 == x(1)
        t2 == x(2)
        t6 == x(3)
        t7 == x(4)
        t3 == x(5)
        t5 == x(6)
        t1 == x(7)
        \* +1/-1 butterflies
        t1a == t0 - t1
        th1 == od_dct_rshift(t1a, 1)
        t0a == t0 - th1
        t4a == t4 + t5
        th4 == od_dct_rshift(t4a, 1)
        t5a == t5 - th4
        t3a == t2 - t3
        t2a == t2 - od_dct_rshift(t3a, 1)
        t6a == t6 + t7
        th6 == od_dct_rshift(t6a, 1)
        t7a == th6 - t7
        \* + Embedded 4-point type-II DCT
        t0b == t0a + th6
        t6b == t0b - t6a
        t2b == th4 - t2a
        t4b == t2b - t4a
        \* |-+ Embedded 2-point type-II DCT
        t0c == t0b - Shr(t4b * 13573 + 16384, 15)
        t4c == t4b + Shr(t0c * 11585 + 8192, 14)
        t0d == t0c - Shr(t4c * 13573 + 16384, 15)
        \* |-+ Embedded 2-point type-IV DST
        t6c == t6b - Shr(t2b * 21895 + 16384, 15)
        t2c == t2b + Shr(t6c * 15137 + 8192, 14)
        t6d == t6c - Shr(t2c * 21895 + 16384, 15)
        \* + Embedded 4-point type-IV DST
        t3b == t3a + Shr(t5a * 19195 + 16384, 15)
        t5b == t5a + Shr(t3b * 11585 + 8192, 14)
        t3c == t3b - Shr(t5b * 7489 + 4096, 13)
        t7b == od_dct_rshift(t5b, 1) - t7a
        t5c == t5b - t7b
        t3d == th1 - t3c
        t1b == t1a - t3d
        t7c == t7b + Shr(t1b * 3227 + 16384, 15)
        t1c == t1b - Shr(t7c * 6393 + 16384, 15)
        t7d == t7c + Shr(t1c * 3227 + 16384, 15)
        t5d == t5c + Shr(t3d * 2485 + 4096, 13)
        t3e == t3d - Shr(t5d * 18205 + 16384, 15)
        t5e == t5d + Shr(t3e * 2485 + 4096, 13)
    IN  <<t0d, t1c, t2c, t3e, t4c, t5e, t6d, t7d>>

\* od_bin_fdct8x8(data): data after the call.  Call i of a pass writes the
\* eight entries from DCT_STRIDE * i on.
DctPass(d) ==
    od_bin_fdct8(d, 0) \o od_bin_fdct8(d, 1) \o od_bin_fdct8(d, 2) \o od_bin_fdct8(d, 3)
    \o od_bin_fdct8(d, 4) \o od_bin_fdct8(d, 5) \o od_bin_fdct8(d, 6) \o od_bin_fdct8(d, 7)
od_bin_fdct8x8(data) ==
    WithValue(data, LAMBDA d : WithValue(DctPass(d), LAMBDA z : DctPass(z)))

\* p1[i * 8 + j] = i16::cast_from(plane.data[(y + i) * stride + x + j])
BlockSamples(plane, st, x, yy) ==
    ArrayOf(LAMBDA k : CastI16(plane[(yy + (k \div 8)) * st + x + (k % 8) + 1]), 64)

\* every index (y + i) * stride + x + j of the block is below data.len()
BlockInside(plane, st, x, yy) == (yy + 7) * st + x + 7 < Len(plane)

\* let sub = ((i & 12) >> 2) + ((j & 12) >> 1)
Sub(i, j) == (IF i >= 4 THEN 1 ELSE 0) + (IF j >= 4 THEN 2 ELSE 0)

\* gvar after lines 266-277, as a fraction <<numerator, denominator>>.  With
\* S the sum of the block and S_q the sum of quadrant q,
\*   p_gvar = sum((64 p - S)^2) / (64 * 63),
\*   sum(p_vars) = sum((16 p - S_q)^2) / (16 * 15),
\* and the quotient of the two is 84 VQ / (5 VG); it is only taken if p_gvar > 0.
BlockSums(p) ==
    LET Sq(q) == SumRange(LAMBDA k : IF Sub(k \div 8, k % 8) = q THEN p[k + 1] ELSE 0, 0, 64)
    IN  <<SumRange(LAMBDA k : p[k + 1], 0, 64), Sq(0), Sq(1), Sq(2), Sq(3)>>
BlockVars(p, sums) ==
    LET S == sums[1]
        Sq(k) == sums[Sub(k \div 8, k % 8) + 2]
    IN  <<SumRange(LAMBDA k : (64 * p[k + 1] - S) * (64 * p[k + 1] - S), 0, 64),
          SumRange(LAMBDA k : (16 * p[k + 1] - Sq(k)) * (16 * p[k + 1] - Sq(k)), 0, 64)>>
GVar(p) ==
    WithValue(BlockSums(p), LAMBDA sums :
        WithValue(BlockVars(p, sums), LAMBDA vgq :
            IF vgq[1] > 0 THEN <<84 * vgq[2], 5 * vgq[1]>> ELSE <<0, 1>>))

\* p_mask of lines 287-293 before the division by 32, in 1/1000:
\* sqrt(sum(dct^2 * mask) * gvar), the sum without the DC coefficient
PMask(p, dct, csf) ==
    WithValue(GVar(p), LAMBDA g :
        WithValue(MulDiv(SumRange(LAMBDA k : dct[k + 1] * dct[k + 1]
                                             * MaskFx(csf, k \div 8, k % 8), 1, 64),
                         g[1], g[2]),
                  LAMBDA prod : Isqrt(prod)))

\* what one block adds to `result` (lines 298-308), in 1/CX
BlockTerm(err, M, C, p_mask, k) ==
    \* err * csf[i][j] in 1/CX; err_mask = p_mask / 32 / mask[i][j]
    WithValue(IF k = 0 THEN err * C
              ELSE IF 4 * M * err < 125 * p_mask THEN 0
              ELSE MulDiv(4 * M * err - 125 * p_mask, C, 4 * M),
              LAMBDA ec : MulDiv(ec, ec, CX))
BlockTerms(dct_p1, dct_p2, p_mask, csf) ==
    SumRange(LAMBDA k : BlockTerm(Abs(dct_p1[k + 1] - dct_p2[k + 1]),
                                  MaskFx(csf, k \div 8, k % 8),
                                  csf[(k \div 8) + 1][(k % 8) + 1], p_mask, k), 0, 64)
BlockResult(p1, p2, csf) ==
    WithValue(<<p1, p2>>, LAMBDA p :
        WithValue(<<od_bin_fdct8x8(p[1]), od_bin_fdct8x8(p[2])>>, LAMBDA dct :
            WithValue(<<PMask(p[1], dct[1], csf), PMask(p[2], dct[2], csf)>>, LAMBDA m :
                BlockTerms(dct[1], dct[2], IF m[2] > m[1] THEN m[2] ELSE m[1], csf))))

\* planes whose sample (x, y) is (a x + b y + c) mod 4, zero in the padding
HvsPlane(wd, ht, st, pat) ==
    [i \in 1..(st * ht) |->
        IF (i - 1) % st < wd
        THEN (pat[1] * ((i - 1) % st) + pat[2] * ((i - 1) \div st) + pat[3]) % 4
        ELSE 0]

HvsPatterns == <<<<0, 0, 0>>, <<1, 1, 0>>, <<1, 2, 1>>>>
HvsDims == {0, STEP - 1, STEP, STEP + 1, MaxHvsDim}

InitHvs ==
    /\ width \in HvsDims
    /\ height \in HvsDims
    /\ stride \in {width, width + 1}
    /\ plane_idx \in 0..2
    /\ hvs_bit_depth \in {2, MaxHvsDepth}
    /\ overflow_checks \in BOOLEAN
    /\ \E i \in 1..Len(HvsPatterns), j \in 0..1 :
         /\ plane1 = HvsPlane(width, height, stride, HvsPatterns[i])
         /\ plane2 = HvsPlane(width, height, stride,
                              HvsPatterns[((i + j - 1) % Len(HvsPatterns)) + 1])
    /\ blk_x = 0 /\ blk_y = 0
    /\ result = R(0) /\ pixels = 0
    /\ visited = <<>>
    /\ hvs_ret = <<>>
    /\ pc = "entry"
    /\ IdleExcept({"planes", "hvs"})

\* `0..(height - STEP)`: the subtraction is on usize
HvsEnter ==
    /\ pc = "entry"
    /\ pc' = IF height < STEP /\ overflow_checks THEN "panicked" ELSE "rows"
    /\ UNCHANGED <<hvsArgs, blk_x, blk_y, result, pixels, visited, hvs_ret, notHvs>>

\* y is inside 0..(height - STEP); a wrapped bound is above every y
RowInRange == height < STEP \/ blk_y < height - STEP
ColInRange == width < STEP \/ blk_x < width - STEP

\* the head of `for y in (0..(height - STEP)).step_by(STEP)` and the making
\* of the inner range `0..(width - STEP)`.  With a wrapped outer bound and
\* an empty inner range the loop only counts y up to the bound.
HvsRow ==
    /\ pc = "rows"
    /\ IF ~RowInRange THEN pc' = "done" /\ UNCHANGED <<blk_x, blk_y>>
       ELSE IF width < STEP /\ overflow_checks THEN pc' = "panicked" /\ UNCHANGED <<blk_x, blk_y>>
       ELSE IF width = STEP
            THEN IF height < STEP THEN pc' = "done" /\ UNCHANGED <<blk_x, blk_y>>
                 ELSE pc' = "rows" /\ blk_y' = blk_y + STEP /\ UNCHANGED blk_x
       ELSE pc' = "cols" /\ blk_x' = 0 /\ UNCHANGED blk_y
    /\ UNCHANGED <<hvsArgs, result, pixels, visited, hvs_ret, notHvs>>

\* one step of `for x in (0..(width - STEP)).step_by(STEP)`: the body for the
\* block at (x, y), or the end of the row
HvsBlock ==
    /\ pc = "cols"
    /\ IF ~ColInRange
       THEN /\ pc' = "rows"
            /\ blk_y' = blk_y + STEP
            /\ UNCHANGED <<blk_x, result, pixels, visited>>
       ELSE IF ~BlockInside(plane1, stride, blk_x, blk_y)
                \/ ~BlockInside(plane2, stride, blk_x, blk_y)
       THEN /\ pc' = "panicked"
            /\ UNCHANGED <<blk_x, blk_y, result, pixels, visited>>
       ELSE /\ result' = RAdd(result,
                              RNorm(BlockResult(BlockSamples(plane1, stride, blk_x, blk_y),
                                                BlockSamples(plane2, stride, blk_x, blk_y),
                                                CsfTable(plane_idx)), CX))
            /\ pixels' = pixels + 64
            /\ visited' = Append(visited, <<blk_x, blk_y>>)
            /\ blk_x' = blk_x + STEP
            /\ UNCHANGED <<pc, blk_y>>
    /\ UNCHANGED <<hvsArgs, hvs_ret, notHvs>>

\* result /= pixels as f64; result /= sample_max.pow(2) as f64
HvsReturn ==
    /\ pc = "done"
    /\ pc' = "returned"
    /\ hvs_ret' = RDiv(RDiv(result, R(pixels)),
                       R(SampleMax(hvs_bit_depth) * SampleMax(hvs_bit_depth)))
    /\ UNCHANGED <<hvsArgs, blk_x, blk_y, result, pixels, visited, notHvs>>

NextHvs == HvsEnter \/ HvsRow \/ HvsBlock \/ HvsReturn

SpecHvs == InitHvs /\ [][NextHvs]_vars

(* C5: for any plane compared against itself, calculate_plane_psnr_hvs     *)
(* returns exactly 0, whatever the plane's width and height (planes too    *)
(* small to hold one 8x8 block included), and never a negative or          *)
(* undefined value.                                                        *)
C5_SamePlaneScoresZero ==
    plane1 = plane2 =>
        /\ pc # "panicked"
        /\ pc = "returned" => hvs_ret = R(0)

\* the same for planes that hold at least one block
C5_SamePlaneWithBlockScoresZero ==
    (plane1 = plane2 /\ width > STEP /\ height > STEP) =>
        /\ pc # "panicked"
        /\ result = R(0)
        /\ pc = "returned" => hvs_ret = R(0)

\* no call returns a negative value
HvsNeverNegative ==
    pc = "returned" => (IsNaN(hvs_ret) \/ ~RLess(hvs_ret, R(0)))

\* the origins of the 8x8 blocks that fit: multiples of STEP, with the block's
\* last column x + 7 and last row y + 7 inside the plane
ExpectedOrigins ==
    {q \in (0..width) \X (0..height) :
        /\ q[1] % STEP = 0 /\ q[2] % STEP = 0
        /\ q[1] + STEP < width /\ q[2] + STEP < height}

\* what C13 says of a call, given that it does not abort
BlocksAsExpected ==
    /\ \A k \in 1..Len(visited) :
          /\ visited[k] \in ExpectedOrigins
          /\ BlockInside(plane1, stride, visited[k][1], visited[k][2])
          /\ BlockInside(plane2, stride, visited[k][1], visited[k][2])
          /\ \A l \in 1..Len(visited) : visited[l] = visited[k] => l = k
    /\ pixels = 64 * Len(visited)
    /\ pc \in {"done", "returned"} =>
          {visited[k] : k \in 1..Len(visited)} = ExpectedOrigins

(* C13: for every plane width and height calculate_plane_psnr_hvs runs its *)
(* block body at exactly the origins (x, y), multiples of 7, with           *)
(* x + 7 < width and y + 7 < height, each once; every block read is inside  *)
(* the plane, so the trailing samples are not read; the pixel count is 64   *)
(* times the number of blocks; and the call does not abort.                 *)
C13_BlockOriginsExact == pc # "panicked" /\ BlocksAsExpected

\* the same for planes of at least STEP columns and rows
C13_BlockOriginsExactFromStep ==
    (width >= STEP /\ height >= STEP) => (pc # "panicked" /\ BlocksAsExpected)

-----------------------------------------------------------------------------
(* log10_convert, calculate_frame_* and aggregate_frame_results.           *)
(*                                                                         *)
(* A logarithm is held exactly, by the number it is the logarithm of:      *)
(* [log10 |-> x] is the f64 log10(x), with x = 0 for -inf, x = +inf for    *)
(* +inf and x = NaN for NaN.  Negating it inverts x and subtracting two    *)
(* divides them, which is also right for the infinite and NaN cases of     *)
(* f64.  [db |-> x] is ten times that.  Two such values are equal exactly  *)
(* when the f64 values are, rounding apart.                                *)

\* f64::log10: NaN below zero, -inf at zero
Log10(x) == [log10 |-> IF IsNaN(x) \/ RLess(x, R(0)) THEN NaN ELSE x]
\* -1.0 * l
LogNeg(l) == [log10 |-> RInv(l.log10)]
\* a - b
LogSub(a, b) == [log10 |-> RDiv(a.log10, b.log10)]
\* 10.0 * l
Times10(l) == [db |-> l.log10]

\* psnr_hvs.rs: 10.0 * (-1.0 * (weight * score).log10())
log10_convert_psnr_hvs(score, weight) == Times10(LogNeg(Log10(RMul(weight, score))))

\* ssim.rs: 10.0 * (weight.log10() - (weight - score).log10())
log10_convert_ssim(score, weight) ==
    Times10(LogSub(Log10(weight), Log10(RSub(weight, score))))

log10_convert(m, score, weight) ==
    IF m = "PsnrHvs" THEN log10_convert_psnr_hvs(score, weight)
    ELSE log10_convert_ssim(score, weight)

\* Option<f64>
None == <<"None">>
Some(x) == <<"Some", x>>
unwrap_or(o, d) == IF o = None THEN d ELSE o[2]

\* ChromaSampling::get_chroma_weight
ChromaSamplings == {"Cs420", "Cs422", "Cs444", "Cs400"}
get_chroma_weight(sampling) ==
    IF sampling = "Cs420" THEN <<1, 4>>
    ELSE IF sampling = "Cs422" THEN <<1, 2>>
    ELSE IF sampling = "Cs444" THEN R(1)
    ELSE R(0)

\* 1.0 + 2.0 * cweight
ChromaTotal(cw) == RAdd(R(1), RMul(R(2), cw))

\* calculate_frame_psnr_hvs, calculate_frame_ssim, calculate_frame_msssim,
\* given what process_frame returned
calculate_frame(m, res, sampling) ==
    IF res.tag = "Err" THEN res
    ELSE LET r == res.value
             cw == get_chroma_weight(sampling)
         IN  Ok(PlanarMetrics(log10_convert(m, r.y, R(1)),
                              log10_convert(m, r.u, R(1)),
                              log10_convert(m, r.v, R(1)),
                              log10_convert(m, RAdd(r.y, RMul(cw, RAdd(r.u, r.v))),
                                            ChromaTotal(cw))))

\* a sum that weighs each term by its position
RECURSIVE SumF64_ByPosition(_)
SumF64_ByPosition(s) ==
    IF s = <<>> THEN R(0)
    ELSE RAdd(SumF64_ByPosition(SubSeq(s, 1, Len(s) - 1)), RMul(R(Len(s)), s[Len(s)]))

\* metrics.iter().map(|m| m.y).sum::<f64>() over a list of f64
RECURSIVE SumF64(_)
SumF64(s) == IF s = <<>> THEN R(0) ELSE RAdd(SumF64(SubSeq(s, 1, Len(s) - 1)), s[Len(s)])

\* the three aggregate_frame_results; "panicked" is the abort of unwrap()
aggregate_frame_results(m, cwo, ms) ==
    IF m = "MsSsim" /\ cwo = None THEN [tag |-> "panicked", reason |-> "", value |-> NoMetrics]
    ELSE LET cw == IF m = "MsSsim" THEN cwo[2] ELSE unwrap_or(cwo, R(1))
             n == R(Len(ms))
             sum_y == SumF64([i \in 1..Len(ms) |-> ms[i].y])
             sum_u == SumF64([i \in 1..Len(ms) |-> ms[i].u])
             sum_v == SumF64([i \in 1..Len(ms) |-> ms[i].v])
             all == RAdd(sum_y, RMul(cw, RAdd(sum_u, sum_v)))
         IN  IF m = "PsnrHvs"
             THEN Ok(PlanarMetrics(log10_convert_psnr_hvs(sum_y, RDiv(R(1), n)),
                                   log10_convert_psnr_hvs(sum_u, RDiv(R(1), n)),
                                   log10_convert_psnr_hvs(sum_v, RDiv(R(1), n)),
                                   log10_convert_psnr_hvs(all,
                                       RDiv(RMul(ChromaTotal(cw), R(1)), n))))
             ELSE Ok(PlanarMetrics(log10_convert_ssim(sum_y, n),
                                   log10_convert_ssim(sum_u, n),
                                   log10_convert_ssim(sum_v, n),
                                   log10_convert_ssim(all, RMul(ChromaTotal(cw), n))))

\* the accumulators process_frame may return
Scores == {RNorm(k, ScoreDen) : k \in 0..ScoreDen}
\* the per-frame results of a video
FrameResults ==
    {PlanarMetrics(R(0), R(0), R(0), R(0)),
     PlanarMetrics(<<1, 4>>, <<1, 4>>, <<1, 4>>, R(0)),
     PlanarMetrics(<<1, 2>>, <<1, 4>>, R(1), R(0)),
     PlanarMetrics(R(1), <<1, 2>>, <<1, 4>>, R(0))}
RECURSIVE SeqsUpTo(_, _)
SeqsUpTo(S, n) ==
    IF n = 0 THEN {<<>>}
    ELSE LET shorter == SeqsUpTo(S, n - 1)
         IN  shorter \cup {Append(s, e) : s \in shorter, e \in S}

InitScore ==
    /\ processor \in Metrics
    /\ \/ /\ pc = "calculate_frame"
          /\ cweight = None
          /\ chroma_sampling \in ChromaSamplings
          /\ frame_result \in {Err(BitDepthReason), Err(ResolutionReason)}
                 \cup {Ok(PlanarMetrics(a, b, c, R(0))) : a \in Scores, b \in Scores, c \in Scores}
          /\ metrics = <<>>
       \/ /\ pc = "aggregate_frame_results"
          /\ cweight \in {None} \cup {Some(get_chroma_weight(s)) : s \in ChromaSamplings}
          /\ chroma_sampling = "none"
          /\ frame_result = NoReturn
          /\ metrics \in SeqsUpTo(FrameResults, MaxFrames)
    /\ score_ret = NoReturn
    /\ IdleExcept({"processor", "score"})

CalculateFrame ==
    /\ pc = "calculate_frame"
    /\ pc' = "returned"
    /\ score_ret' = calculate_frame(processor, frame_result, chroma_sampling)
    /\ UNCHANGED <<procVars, chroma_sampling, frame_result, notScore>>

AggregateFrameResults ==
    /\ pc = "aggregate_frame_results"
    /\ score_ret' = aggregate_frame_results(processor, cweight, metrics)
    /\ pc' = IF score_ret'.tag = "panicked" THEN "panicked" ELSE "returned"
    /\ UNCHANGED <<procVars, chroma_sampling, frame_result, notScore>>

NextScore == CalculateFrame \/ AggregateFrameResults

SpecScore == InitScore /\ [][NextScore]_vars

\* 10 * -log10(x), written with the logarithm of the model
NegDb(x) == Times10(LogNeg(Log10(x)))

(* C6: calculate_frame_psnr_hvs gives each channel the score              *)
(* 10 * -log10(1 * score) and avg the score                               *)
(* 10 * -log10(weight * (y + cw * (u + v))) with weight = 1 / (1 + 2 cw), *)
(* cw the chroma weight; so when the Y, U and V accumulators are equal,   *)
(* avg equals the channel score.                                          *)
C6_FrameScoreWeights ==
    (pc = "returned" /\ processor = "PsnrHvs" /\ frame_result.tag = "Ok") =>
        LET r == frame_result.value
            cw == get_chroma_weight(chroma_sampling)
            weight == RInv(ChromaTotal(cw))
        IN  /\ score_ret.tag = "Ok"
            /\ score_ret.value.y = NegDb(RMul(R(1), r.y))
            /\ score_ret.value.u = NegDb(RMul(R(1), r.u))
            /\ score_ret.value.v = NegDb(RMul(R(1), r.v))
            /\ score_ret.value.avg = NegDb(RMul(weight, RAdd(r.y, RMul(cw, RAdd(r.u, r.v)))))
            /\ (r.y = r.u /\ r.u = r.v) => score_ret.value.avg = score_ret.value.y

\* the part of C6 about the three channels
C6_FrameChannelScores ==
    (pc = "returned" /\ processor = "PsnrHvs" /\ frame_result.tag = "Ok") =>
        LET r == frame_result.value
        IN  /\ score_ret.tag = "Ok"
            /\ score_ret.value.y = NegDb(r.y)
            /\ score_ret.value.u = NegDb(r.u)
            /\ score_ret.value.v = NegDb(r.v)

(* C7: PsnrHvs::aggregate_frame_results over n >= 1 per-frame results     *)
(* sums the accumulators and then converts: each channel score is         *)
(* 10 * -log10(sum / n), avg is                                           *)
(* 10 * -log10((sum_y + cw * (sum_u + sum_v)) / (n * (1 + 2 cw))), and    *)
(* the channel aggregate of n identical per-frame accumulators is the     *)
(* single-frame channel score.                                            *)
C7_AggregateSumsThenConverts ==
    (pc = "returned" /\ processor = "PsnrHvs" /\ Len(metrics) >= 1) =>
        LET n == R(Len(metrics))
            cw == unwrap_or(cweight, R(1))
            sum_y == SumF64([i \in 1..Len(metrics) |-> metrics[i].y])
            sum_u == SumF64([i \in 1..Len(metrics) |-> metrics[i].u])
            sum_v == SumF64([i \in 1..Len(metrics) |-> metrics[i].v])
        IN  /\ score_ret.tag = "Ok"
            /\ score_ret.value.y = NegDb(RDiv(sum_y, n))
            /\ score_ret.value.u = NegDb(RDiv(sum_u, n))
            /\ score_ret.value.v = NegDb(RDiv(sum_v, n))
            /\ score_ret.value.avg =
                   NegDb(RDiv(RAdd(sum_y, RMul(cw, RAdd(sum_u, sum_v))),
                              RMul(n, ChromaTotal(cw))))
            /\ (\A i \in 1..Len(metrics) : metrics[i] = metrics[1]) =>
                   /\ score_ret.value.y = log10_convert_psnr_hvs(metrics[1].y, R(1))
                   /\ score_ret.value.u = log10_convert_psnr_hvs(metrics[1].u, R(1))
                   /\ score_ret.value.v = log10_convert_psnr_hvs(metrics[1].v, R(1))

\* the part of C7 about the three channels
C7_AggregateChannelScores ==
    (pc = "returned" /\ processor = "PsnrHvs" /\ Len(metrics) >= 1) =>
        LET n == R(Len(metrics))
            sum_y == SumF64([i \in 1..Len(metrics) |-> metrics[i].y])
            sum_u == SumF64([i \in 1..Len(metrics) |-> metrics[i].u])
            sum_v == SumF64([i \in 1..Len(metrics) |-> metrics[i].v])
        IN  /\ score_ret.tag = "Ok"
            /\ score_ret.value.y = NegDb(RDiv(sum_y, n))
            /\ score_ret.value.u = NegDb(RDiv(sum_u, n))
            /\ score_ret.value.v = NegDb(RDiv(sum_v, n))
            /\ (\A i \in 1..Len(metrics) : metrics[i] = metrics[1]) =>
                   /\ score_ret.value.y = log10_convert_psnr_hvs(metrics[1].y, R(1))
                   /\ score_ret.value.u = log10_convert_psnr_hvs(metrics[1].u, R(1))
                   /\ score_ret.value.v = log10_convert_psnr_hvs(metrics[1].v, R(1))

\* the orderings of 1..n, and a list reordered by one
Orderings(n) == {f \in [1..n -> 1..n] : \A i, j \in 1..n : f[i] = f[j] => i = j}
Permuted(s, f) == [i \in 1..Len(s) |-> s[f[i]]]

C12_MissingWeightDefaultsToOne ==
    (cweight = None /\ chroma_sampling = "none" /\ pc # "aggregate_frame_results") =>
        /\ pc # "panicked"
        /\ score_ret = aggregate_frame_results(processor, Some(R(1)), metrics)

\* the part of C12 that holds: PSNR-HVS and SSIM default the weight to 1.0
C12_DefaultsToOneButMsSsim ==
    (cweight = None /\ chroma_sampling = "none" /\ pc # "aggregate_frame_results"
        /\ processor # "MsSsim") =>
        /\ pc = "returned"
        /\ score_ret = aggregate_frame_results(processor, Some(R(1)), metrics)

-----------------------------------------------------------------------------
(* calculate_video_psnr_hvs / calculate_video_ssim / calculate_video_msssim *)
(* and the driver they call, VideoMetric::process_video.  The driver is not *)
(* among the source files; it is modelled from its description: fetch the   *)
(* next frame from each decoder in lock-step, stop at end-of-stream of      *)
(* either or at the frame limit (checked once per frame boundary), call     *)
(* process_frame, report progress after each frame, collect the per-frame   *)
(* results, then call aggregate_frame_results; a decode failure or a        *)
(* process_frame error aborts and discards what was collected.              *)

DecodeReason == "decode failure"

\* what read_video_frame yields
FrameItem(f) == [kind |-> "frame", frame |-> f]
DecodeFailure == [kind |-> "decode_failure", frame |-> <<>>]
EndOfStream == [kind |-> "end_of_stream", frame |-> <<>>]

\* the pull-based "next decoded frame" of a decoder that has given n items
read_video_frame(decoder, n) ==
    IF n >= Len(decoder.stream) THEN EndOfStream ELSE decoder.stream[n + 1]

\* the content of a frame, as the frames of this model name it
ContentOf(f) == f.planes[1].data[1]

\* the accumulators the three channel tasks leave for a pair of frames
FrameScores(f1, f2) ==
    LET c1 == ContentOf(f1)
        c2 == ContentOf(f2)
    IN  IF c1 = "a" /\ c2 = "a" THEN PlanarMetrics(R(0), R(0), R(0), R(0))
        ELSE IF c1 = "a" THEN PlanarMetrics(<<1, 4>>, <<1, 4>>, <<1, 4>>, R(0))
        ELSE IF c2 = "a" THEN PlanarMetrics(<<1, 2>>, <<1, 4>>, R(1), R(0))
        ELSE PlanarMetrics(R(1), <<1, 2>>, <<1, 4>>, R(0))

\* process_frame as the driver sees it: a pure function of the frame pair
process_frame(f1, f2) ==
    IF can_compare(f1, f2) THEN Ok(FrameScores(f1, f2)) ELSE Err(ResolutionReason)

\* a limit that lets one frame too many through
LimitReached_Late(limit, n) == limit # None /\ n > limit[2]

\* the frame-count limit, checked at a frame boundary after n frames
LimitReached(limit, n) == limit # None /\ n >= limit[2]

\* a driver that skips the frame whose process_frame failed
Propagate_Skip(res, ms) ==
    IF res.tag = "Err"
    THEN [next |-> "frame_boundary", metrics |-> ms, ret |-> NoReturn]
    ELSE [next |-> "progress", metrics |-> Append(ms, res.value), ret |-> NoReturn]

\* what the driver does with process_frame's result: an error ends the call
\* and what was collected is dropped, a result is collected
Propagate(res, ms) ==
    IF res.tag = "Err"
    THEN [next |-> "returned", metrics |-> <<>>, ret |-> res]
    ELSE [next |-> "progress", metrics |-> Append(ms, res.value), ret |-> NoReturn]

\* a stream of n items: frames of alternating content, and at position `at`
\* either a decode failure or a frame of another geometry
VideoStream(n, second, fault, at) ==
    [i \in 1..n |->
        IF fault = "decode" /\ i = at THEN DecodeFailure
        ELSE LET c == IF second THEN (IF (i \div 2) % 2 = 0 THEN "a" ELSE "b")
                      ELSE (IF i % 2 = 1 THEN "a" ELSE "b")
             IN  FrameItem(Frame(IF fault = "shape" /\ i = at THEN MaxPlaneDim ELSE 2,
                                 FALSE, c))]

Decoder(sampling, st) == [details |-> [chroma_sampling |-> sampling], stream |-> st]

InitVideo ==
    /\ processor \in Metrics
    /\ cweight = None
    /\ metrics = <<>>
    /\ \E sampling \in ChromaSamplings, n1 \in 0..MaxFrames, n2 \in 0..MaxFrames :
         /\ \E at \in 0..n1 :
                decoder1 = Decoder(sampling, VideoStream(n1, FALSE, "decode", at))
         /\ \E fault \in {"decode", "shape"}, at \in 0..n2 :
                decoder2 = Decoder(sampling, VideoStream(n2, TRUE, fault, at))
    /\ frame_limit \in {None} \cup {Some(k) : k \in 0..MaxFrames}
    /\ pos1 = 0 /\ pos2 = 0
    /\ fetched1 = NoItem /\ fetched2 = NoItem
    /\ processed = <<>>
    /\ progress = <<>>
    /\ aggregate_calls = 0
    /\ video_ret = NoReturn
    /\ pc = "calculate_video"
    /\ IdleExcept({"processor", "video"})

\* let cweight = Some(decoder1.get_video_details().chroma_sampling.get_chroma_weight());
\* PsnrHvs { cweight }.process_video(decoder1, decoder2, frame_limit, progress_callback)
CalculateVideo ==
    /\ pc = "calculate_video"
    /\ cweight' = Some(get_chroma_weight(decoder1.details.chroma_sampling))
    /\ pc' = "frame_boundary"
    /\ UNCHANGED <<processor, metrics, videoOwn, notVideo>>

\* the frame boundary: the limit is checked before the next fetch
VideoFrameBoundary ==
    /\ pc = "frame_boundary"
    /\ pc' = IF LimitReached(frame_limit, Len(metrics)) THEN "aggregate" ELSE "fetch"
    /\ UNCHANGED <<procVars, videoOwn, notVideo>>

\* the next frame of each decoder, in lock-step
VideoFetch ==
    /\ pc = "fetch"
    /\ fetched1' = read_video_frame(decoder1, pos1)
    /\ fetched2' = read_video_frame(decoder2, pos2)
    /\ pos1' = IF fetched1' = EndOfStream THEN pos1 ELSE pos1 + 1
    /\ pos2' = IF fetched2' = EndOfStream THEN pos2 ELSE pos2 + 1
    /\ IF DecodeFailure \in {fetched1', fetched2'}
       THEN pc' = "returned" /\ video_ret' = Err(DecodeReason) /\ metrics' = <<>>
       ELSE /\ pc' = IF EndOfStream \in {fetched1', fetched2'} THEN "aggregate"
                     ELSE "process_frame"
            /\ UNCHANGED <<video_ret, metrics>>
    /\ UNCHANGED <<processor, cweight, videoArgs, processed, progress, aggregate_calls,
                   notVideo>>

\* process_frame on the pair just fetched
VideoProcessFrame ==
    /\ pc = "process_frame"
    /\ processed' = Append(processed, <<pos1, pos2>>)
    /\ LET out == Propagate(process_frame(fetched1.frame, fetched2.frame), metrics)
       IN  pc' = out.next /\ metrics' = out.metrics /\ video_ret' = out.ret
    /\ UNCHANGED <<processor, cweight, videoArgs, pos1, pos2, fetched1, fetched2,
                   progress, aggregate_calls, notVideo>>

\* the progress sink, called with the ordinal of the frame just processed
VideoProgress ==
    /\ pc = "progress"
    /\ progress' = Append(progress, Len(metrics))
    /\ pc' = "frame_boundary"
    /\ UNCHANGED <<procVars, videoArgs, pos1, pos2, fetched1, fetched2, processed,
                   aggregate_calls, video_ret, notVideo>>

\* self.aggregate_frame_results(&metrics)
VideoAggregate ==
    /\ pc = "aggregate"
    /\ aggregate_calls' = aggregate_calls + 1
    /\ video_ret' = aggregate_frame_results(processor, cweight, metrics)
    /\ pc' = "returned"
    /\ UNCHANGED <<procVars, videoArgs, pos1, pos2, fetched1, fetched2, processed,
                   progress, notVideo>>

NextVideo ==
    \/ CalculateVideo
    \/ VideoFrameBoundary
    \/ VideoFetch
    \/ VideoProcessFrame
    \/ VideoProgress
    \/ VideoAggregate

SpecVideo == InitVideo /\ [][NextVideo]_vars

\* the frame pair at stream positions <<i1, i2>>
PairAt(q) == <<decoder1.stream[q[1]].frame, decoder2.stream[q[2]].frame>>

\* the processed pairs on which process_frame failed, by their place in `processed`
FailedPairs ==
    {i \in 1..Len(processed) :
        process_frame(PairAt(processed[i])[1], PairAt(processed[i])[2]).tag = "Err"}

\* neither stream has a decode failure, and every pair of frames that stand at
\* the same position can be compared
NoErrors ==
    /\ \A i \in 1..Len(decoder1.stream) : decoder1.stream[i] # DecodeFailure
    /\ \A i \in 1..Len(decoder2.stream) : decoder2.stream[i] # DecodeFailure
    /\ \A i \in 1..Min(Len(decoder1.stream), Len(decoder2.stream)) :
           process_frame(decoder1.stream[i].frame, decoder2.stream[i].frame).tag = "Ok"

\* min(frames in decoder 1, frames in decoder 2, frame_limit if given)
ExpectedFrames ==
    LET both == Min(Len(decoder1.stream), Len(decoder2.stream))
    IN  IF frame_limit = None THEN both ELSE Min(both, frame_limit[2])

\* C9: absent errors, process_video gives process_frame the frame pairs 1, 2,
\* ... in stream order and both decoders at the same position, never more than
\* min(frames of decoder 1, frames of decoder 2, frame_limit); it calls
\* aggregate_frame_results once, after exactly that many pairs, and returns
\* Ok.  Whatever the streams, an Err is returned only after a decode failure
\* was fetched or process_frame failed: end-of-stream and the limit are not
\* errors.
C9_LockStepUntilMinThenAggregate ==
    /\ NoErrors =>
          /\ processed = [i \in 1..Len(processed) |-> <<i, i>>]
          /\ Len(processed) <= ExpectedFrames
          /\ aggregate_calls <= 1
          /\ aggregate_calls = 1 => Len(processed) = ExpectedFrames
          /\ video_ret.tag # "Err"
          /\ pc = "returned" =>
                /\ aggregate_calls = 1
                /\ video_ret.tag = "Ok"
    /\ video_ret.tag = "Err" =>
          \/ DecodeFailure \in {fetched1, fetched2}
          \/ FailedPairs # {}

\* the call returned at the frame limit, which is below the length of both
\* streams, themselves of different lengths
C9_Witness ==
    /\ pc = "returned"
    /\ NoErrors
    /\ frame_limit # None
    /\ frame_limit[2] > 0
    /\ frame_limit[2] < Len(decoder2.stream)
    /\ Len(decoder2.stream) < Len(decoder1.stream)
    /\ Len(processed) = frame_limit[2]
    /\ aggregate_calls = 1

\* the per-frame results of the processed pairs, in order
ResultsOf(ps) ==
    [i \in 1..Len(ps) |-> process_frame(PairAt(ps[i])[1], PairAt(ps[i])[2]).value]

\* C10: a call that has returned gave either an Err carrying no metrics, or
\* Ok with the PlanarMetrics that aggregate_frame_results computes from the
\* results of every processed pair; before it returns it has given nothing.
\* If process_frame failed on a pair, that pair is the last one processed,
\* aggregate_frame_results was not called, the call has returned Err and the
\* results collected so far are dropped.
C10_CompleteMetricsOrError ==
    /\ pc = "returned" =>
          \/ video_ret \in {Err(DecodeReason), Err(ResolutionReason)}
          \/ /\ FailedPairs = {}
             /\ video_ret.tag = "Ok"
             /\ video_ret = aggregate_frame_results(processor, cweight, ResultsOf(processed))
    /\ pc # "returned" => video_ret = NoReturn
    /\ FailedPairs # {} =>
          /\ FailedPairs = {Len(processed)}
          /\ aggregate_calls = 0
          /\ pc = "returned"
          /\ video_ret = Err(ResolutionReason)
          /\ metrics = <<>>

\* process_frame failed on a pair after at least one pair had given a result
C10_Witness ==
    /\ pc = "returned"
    /\ FailedPairs # {}
    /\ Len(processed) > 1
    /\ Len(progress) = Len(processed) - 1
    /\ video_ret.tag = "Err"

=============================================================================
